---- MODULE Spec2Model ----
(***************************************************************************)
(* buckaroo-banzai: the redis-backed bank (balances hash + exports stream) *)
(* and the consumption of submitted exports.                               *)
(*                                                                         *)
(* The redis server runs one command or one EVAL script at a time, so the  *)
(* server-side part of every call is one step.  A client call is two       *)
(* steps: the goroutine issues the call (Call), the server runs it and the *)
(* goroutine gets the result (Complete).  Amounts stay far below 2^53, the *)
(* range in which the Lua scripts' number arithmetic is exact.             *)
(***************************************************************************)
EXTENDS Integers, Sequences, FiniteSets, TLC

\* ---------------------------------------------------------------- bounds
NumThreads == 2      \* goroutines calling the bank concurrently
MaxAmt == 2          \* call arguments are drawn from -MaxDebit..MaxAmt
MaxDebit == 1        \* the largest amount a call may ask to take off with a negative argument
MaxInit == 1         \* initial balances are drawn from 0..MaxInit
MaxTotal == 2        \* cap on the sum of the balances
MaxExports == 2      \* cap on the length of the exports stream
MaxClock == 0        \* redis' millisecond clock runs over 0..MaxClock
NumConsumers == 2    \* calls of ConsumeExports that may run at the same time
MaxQueued == 1       \* cap on the stream's length while it is being consumed
MaxErrs == 1         \* cap on the reads that fail
MaxNacks == 1        \* cap on the times the receiver nacks one entry
MaxTick == 2         \* the clock of the submitters' specification runs over 0..MaxTick
MaxOrdered == 2      \* cap on the stream's length where the order of deliveries is checked
MaxOps == 2          \* cap on the operations of the bot's Stellar account
MaxRestarts == 1     \* cap on the restarts of the program

Users == {"A", "B"}
Threads == 1..NumThreads
Amounts == (0 - MaxDebit)..MaxAmt
Protocols == {"stellar"}
Payloads == {"xdr"}
Nil == <<>>          \* redis' nil reply, Go's nil error, the empty string

Consumers == 1..NumConsumers

VARIABLES
    balances,       \* the balances hash: user -> balance, absent users have no field
    exports,        \* the exports stream: entries [ID, json] in the order added
    inCall,         \* goroutine -> whether its call to the bank is in flight
    ret,            \* the call that returned last, with what it returned
    initial,        \* the balances in the initial state
    applied,        \* user -> the sum of the deltas of the calls that succeeded
    submitted,      \* the successful SubmitExports in the order they took
                    \* effect: the id each returned and its export
    minted,         \* the sum of the amounts of the Incrs that succeeded
    step,           \* how many calls of the end-to-end scenario have returned
    groupExists,    \* whether the consumer group exists
    lastDelivered,  \* the group's cursor: entries up to it have been delivered
    pel,            \* the group's pending entries: entry -> consumer name
    released,       \* the pending entries released for another delivery
    cpc,            \* call of ConsumeExports -> where it is
    ctxDone,        \* whether the context given to the calls is cancelled
    reader,         \* call -> its stream reader
    entry,          \* call -> the entry it read and is writing to the channel
    cerr,           \* call -> the error it returned
    errs,           \* how many reads have failed
    held,           \* the ExportInProgress the receiver has taken
    written,        \* the entries written to the channel at least once
    acked,          \* the entries whose Ack returned nil
    nacks,          \* entry -> how many times the receiver has nacked it
    needs,          \* the entries nacked or left unacked by a returned call,
                    \* not acked and not written to a channel since
    readAfterAck,   \* whether a reader has read since an Ack returned nil
    chClosed,       \* whether the channel given to the calls has been closed
    receiving,      \* whether the receiver still takes from the channel
    inflight,       \* call -> the entries it was given, not acked or released since
    order,          \* the ids written to a channel, in the order of their first write
    failed,         \* the entries whose processing failed, not acked and
                    \* not written to a channel since
    ackRet,         \* what the last call of an Ack was on and returned
    handedOff,      \* the entries whose submission to Stellar has succeeded
    txOK,           \* whether the submission of the ExportInProgress that
                    \* processExport is working on has succeeded
    ev,             \* the slack event handled last, with what the handler did
    dms,            \* the entries a "transaction was successful" message was
                    \* sent for, one for each message, in the order sent
    ops,            \* the operations of the bot's Stellar account, in the
                    \* order of their paging tokens
    lastCursor,     \* receivePayments' lastCursor: the operations up to it
                    \* have been handled by this run of the program
    savedCursor,    \* the value of lastCursorKey in redis
    rpc,            \* where receivePayments is
    credited,       \* the operations Incr was called for with success, one
                    \* for each call, in the order of the calls
    restarts        \* how many times the program has been started again

ledgerVars ==
    <<balances, exports, inCall, ret, initial, applied, submitted, minted, step>>

exportVars ==
    <<groupExists, lastDelivered, pel, released, cpc, ctxDone, reader, entry,
      cerr, errs, held, written, acked, nacks, needs, readAfterAck,
      chClosed, receiving, inflight, order, failed, ackRet>>

depositVars == <<ops, lastCursor, savedCursor, rpc, credited, restarts>>

appVars == <<handedOff, txOK, ev, dms, depositVars>>

vars == <<ledgerVars, exportVars, appVars>>

\* ------------------------------------------------------- pure functions
DigitChars == <<"0", "1", "2", "3", "4", "5", "6", "7", "8", "9">>

RECURSIVE Digits(_)
Digits(n) ==
    IF n < 10 THEN <<DigitChars[n + 1]>>
    ELSE Digits(n \div 10) \o <<DigitChars[(n % 10) + 1]>>

\* strconv.Itoa: the decimal string of an int, as its characters
Itoa(n) == IF n < 0 THEN <<"-">> \o Digits(0 - n) ELSE Digits(n)

RECURSIVE DigitsValue(_)
DigitsValue(s) ==
    IF Len(s) = 0 THEN 0
    ELSE 10 * DigitsValue(SubSeq(s, 1, Len(s) - 1))
         + ((CHOOSE d \in 1..10 : DigitChars[d] = s[Len(s)]) - 1)

\* Lua's tonumber on a decimal string
tonumber(s) ==
    IF s[1] = "-" THEN 0 - DigitsValue(Tail(s)) ELSE DigitsValue(s)

\* tonumber followed by "if not x then x = 0 end": nil counts as 0
NumberOrZero(s) == IF s = Nil THEN 0 ELSE tonumber(s)

\* HGET: the stored decimal string of a field, nil when the field is absent
HGET(h, field) == IF field \in DOMAIN h THEN Itoa(h[field]) ELSE Nil

\* HINCRBY: adds to the field (an absent field counts as 0), returns the hash
HINCRBY(h, field, by) ==
    [f \in DOMAIN h \cup {field} |->
        IF f = field THEN (IF f \in DOMAIN h THEN h[f] ELSE 0) + by ELSE h[f]]

\* A Go error is the chain of the errors it wraps, outermost first; each is
\* a value with an identity (what == compares) and a text.  nil is the empty
\* chain.
NotEnoughFundsStr == "you aint got that kind of scratch, kid"

\* errors.New(text): a value of its own
ErrorsNew(is, text) == <<[is |-> is, text |-> text]>>

ErrNotEnoughFunds == ErrorsNew("bank.ErrNotEnoughFunds", NotEnoughFundsStr)

\* redis.error_reply(msg) as the client sees it: a reply error with that text
ErrorReply(msg) == <<[is |-> "resp2.Error", text |-> msg]>>

\* err.Error(): the texts of the chain, outermost first
ErrorText(err) == [i \in 1..Len(err) |-> err[i].text]

\* fmt.Errorf("<prefix>: %w", err): err wrapped, the chain grows at the front
Wrap(prefix, err) == <<[is |-> "fmt.wrapError", text |-> prefix]>> \o err

\* errors.Is: the target is one of the values of the chain
ErrorsIs(err, target) == \E i \in 1..Len(err) : err[i] = target[1]

\* a translateRedisErr that hands every error on as it is
translateRedisErrKeeps(err) == err

translateRedisErr(err) ==
    IF err = Nil THEN Nil
    ELSE IF ErrorText(err) = ErrorText(ErrNotEnoughFunds) THEN ErrNotEnoughFunds
    ELSE err

\* a json.Marshal that leaves ProtocolPayload out
MarshalOmitsPayload(e) ==
    << <<"FromUserID", e.FromUserID>>, <<"Amount", e.Amount>>,
       <<"Protocol", e.Protocol>> >>

\* json.Marshal of an Export: its fields by name, in declaration order
Marshal(e) ==
    << <<"FromUserID", e.FromUserID>>, <<"Amount", e.Amount>>,
       <<"Protocol", e.Protocol>>, <<"ProtocolPayload", e.ProtocolPayload>> >>

\* the value of a key of a JSON object, the field's zero value without it
JSONField(j, name, zero) ==
    IF \E i \in 1..Len(j) : j[i][1] = name
    THEN j[CHOOSE i \in 1..Len(j) : j[i][1] = name][2]
    ELSE zero

\* json.Unmarshal into an Export: each field looked up by its name
Unmarshal(j) ==
    [FromUserID |-> JSONField(j, "FromUserID", ""),
     Amount |-> JSONField(j, "Amount", 0),
     Protocol |-> JSONField(j, "Protocol", ""),
     ProtocolPayload |-> JSONField(j, "ProtocolPayload", "")]

\* ----------------------------------------------------- the redis scripts
\* A script gets the balances hash and the exports stream and gives back
\* both with its reply: [h, s, err, val].

\* redisBank.Balance: HGET into an int, nil reads as 0
BalanceOf(h, userID) ==
    NumberOrZero(HGET(h, userID))

\* incrCmd adding the increment to every field of the hash
incrCmdAllFields(h, user, amountStr) ==
    LET toIncr == tonumber(amountStr)
        balance == NumberOrZero(HGET(h, user))
    IN  IF balance + toIncr < 0
        THEN [h |-> h, err |-> ErrorReply(NotEnoughFundsStr), val |-> 0]
        ELSE LET h2 == [f \in DOMAIN h \cup {user} |->
                          (IF f \in DOMAIN h THEN h[f] ELSE 0) + toIncr]
             IN  [h |-> h2, err |-> Nil, val |-> h2[user]]

\* incrCmd writing the increment over the balance instead of adding it
incrCmdOverwrites(h, user, amountStr) ==
    LET toIncr == tonumber(amountStr)
        balance == NumberOrZero(HGET(h, user))
    IN  IF balance + toIncr < 0
        THEN [h |-> h, err |-> ErrorReply(NotEnoughFundsStr), val |-> 0]
        ELSE LET h2 == HINCRBY(h, user, toIncr - balance)
             IN  [h |-> h2, err |-> Nil, val |-> h2[user]]

\* incrCmd setting the balance to 0 when it would go below (the script's TODO)
incrCmdClamps(h, user, amountStr) ==
    LET toIncr == tonumber(amountStr)
        balance == NumberOrZero(HGET(h, user))
    IN  IF balance + toIncr < 0
        THEN [h |-> HINCRBY(h, user, 0 - balance), err |-> Nil, val |-> 0]
        ELSE LET h2 == HINCRBY(h, user, toIncr)
             IN  [h |-> h2, err |-> Nil, val |-> h2[user]]

incrCmd(h, user, amountStr) ==
    LET toIncr == tonumber(amountStr)
        balance == NumberOrZero(HGET(h, user))
    IN  IF balance + toIncr < 0
        THEN [h |-> h, err |-> ErrorReply(NotEnoughFundsStr), val |-> 0]
        ELSE LET h2 == HINCRBY(h, user, toIncr)
             IN  [h |-> h2, err |-> Nil, val |-> h2[user]]

\* transferCmd crediting dst and leaving src as it is
transferCmdCreditsOnly(h, dstUser, srcUser, amountStr) ==
    LET toTransfer == tonumber(amountStr)
        dstBalance == NumberOrZero(HGET(h, dstUser))
        srcBalance == NumberOrZero(HGET(h, srcUser))
    IN  IF srcBalance - toTransfer < 0 \/ dstBalance + toTransfer < 0
        THEN [h |-> h, err |-> ErrorReply(NotEnoughFundsStr), val |-> 0]
        ELSE LET h2 == HINCRBY(h, dstUser, toTransfer)
                 h3 == HINCRBY(h2, srcUser, 0)
             IN  [h |-> h3, err |-> Nil, val |-> <<h2[dstUser], h3[srcUser]>>]

\* transferCmd crediting dst before it checks the balances
transferCmdChecksAfter(h, dstUser, srcUser, amountStr) ==
    LET toTransfer == tonumber(amountStr)
        dstBalance == NumberOrZero(HGET(h, dstUser))
        srcBalance == NumberOrZero(HGET(h, srcUser))
        h2 == HINCRBY(h, dstUser, toTransfer)
    IN  IF srcBalance - toTransfer < 0 \/ dstBalance + toTransfer < 0
        THEN [h |-> h2, err |-> ErrorReply(NotEnoughFundsStr), val |-> 0]
        ELSE LET h3 == HINCRBY(h2, srcUser, (0 - 1) * toTransfer)
             IN  [h |-> h3, err |-> Nil, val |-> <<h2[dstUser], h3[srcUser]>>]

\* transferCmd checking the source balance only
transferCmdChecksSrcOnly(h, dstUser, srcUser, amountStr) ==
    LET toTransfer == tonumber(amountStr)
        srcBalance == NumberOrZero(HGET(h, srcUser))
    IN  IF srcBalance - toTransfer < 0
        THEN [h |-> h, err |-> ErrorReply(NotEnoughFundsStr), val |-> 0]
        ELSE LET h2 == HINCRBY(h, dstUser, toTransfer)
                 h3 == HINCRBY(h2, srcUser, (0 - 1) * toTransfer)
             IN  [h |-> h3, err |-> Nil, val |-> <<h2[dstUser], h3[srcUser]>>]

\* transferCmd checking the destination balance only
transferCmdChecksDstOnly(h, dstUser, srcUser, amountStr) ==
    LET toTransfer == tonumber(amountStr)
        dstBalance == NumberOrZero(HGET(h, dstUser))
    IN  IF dstBalance + toTransfer < 0
        THEN [h |-> h, err |-> ErrorReply(NotEnoughFundsStr), val |-> 0]
        ELSE LET h2 == HINCRBY(h, dstUser, toTransfer)
                 h3 == HINCRBY(h2, srcUser, (0 - 1) * toTransfer)
             IN  [h |-> h3, err |-> Nil, val |-> <<h2[dstUser], h3[srcUser]>>]

transferCmd(h, dstUser, srcUser, amountStr) ==
    LET toTransfer == tonumber(amountStr)
        dstBalance == NumberOrZero(HGET(h, dstUser))
        srcBalance == NumberOrZero(HGET(h, srcUser))
    IN  IF srcBalance - toTransfer < 0 \/ dstBalance + toTransfer < 0
        THEN [h |-> h, err |-> ErrorReply(NotEnoughFundsStr), val |-> 0]
        ELSE LET h2 == HINCRBY(h, dstUser, toTransfer)
                 h3 == HINCRBY(h2, srcUser, (0 - 1) * toTransfer)
             IN  [h |-> h3, err |-> Nil, val |-> <<h2[dstUser], h3[srcUser]>>]

\* the earlier transferCmd refusing also a transfer of all that src has
transferCmdEarlierKeepsOne(h, dstUser, srcUser, amountStr) ==
    LET toTransfer == tonumber(amountStr)
        srcBalance == NumberOrZero(HGET(h, srcUser))
    IN  IF srcBalance <= toTransfer
        THEN [h |-> h, err |-> ErrorReply(NotEnoughFundsStr), val |-> 0]
        ELSE LET h2 == HINCRBY(h, dstUser, toTransfer)
                 h3 == HINCRBY(h2, srcUser, (0 - 1) * toTransfer)
             IN  [h |-> h3, err |-> Nil, val |-> <<h2[dstUser], h3[srcUser]>>]

\* the transferCmd of the earlier redisBank: it reads the balance of src
\* only and refuses when that is below the amount
transferCmdEarlier(h, dstUser, srcUser, amountStr) ==
    LET toTransfer == tonumber(amountStr)
        srcBalance == NumberOrZero(HGET(h, srcUser))
    IN  IF srcBalance < toTransfer
        THEN [h |-> h, err |-> ErrorReply(NotEnoughFundsStr), val |-> 0]
        ELSE LET h2 == HINCRBY(h, dstUser, toTransfer)
                 h3 == HINCRBY(h2, srcUser, (0 - 1) * toTransfer)
             IN  [h |-> h3, err |-> Nil, val |-> <<h2[dstUser], h3[srcUser]>>]

\* stream entry ids are <<ms, seq>>, ordered lexicographically
IDLess(a, b) == a[1] < b[1] \/ (a[1] = b[1] /\ a[2] < b[2])

LastID(s) == IF Len(s) = 0 THEN <<0, 0>> ELSE s[Len(s)].ID

\* an XADD that takes its id from the clock alone
NextIDFromClock(s, ms) == <<ms, 0>>

\* XADD key "*": the id redis gives at clock ms, always above the last id
NextID(s, ms) ==
    IF ms > LastID(s)[1] THEN <<ms, 0>> ELSE <<LastID(s)[1], LastID(s)[2] + 1>>

\* an XADD that puts the new entry in front of the stream
XADDFront(s, ms, json) == <<[ID |-> NextID(s, ms), json |-> json]>> \o s

XADD(s, ms, json) == Append(s, [ID |-> NextID(s, ms), json |-> json])

\* radix.StreamEntryID.String: "<ms>-<seq>"
IDString(id) == Itoa(id[1]) \o <<"-">> \o Itoa(id[2])

\* the id redis replies with, parsed from "<ms>-<seq>" into a StreamEntryID
ParseID(str) ==
    LET dash == CHOOSE i \in 1..Len(str) : str[i] = "-"
    IN  <<DigitsValue(SubSeq(str, 1, dash - 1)),
          DigitsValue(SubSeq(str, dash + 1, Len(str)))>>

\* submitExportCmd debiting before it checks the balance
submitExportCmdDebitsFirst(h, s, ms, user, amountStr, exportJSON) ==
    LET toTransfer == tonumber(amountStr)
        srcBalance == NumberOrZero(HGET(h, user))
        h2 == HINCRBY(h, user, (0 - 1) * toTransfer)
    IN  IF srcBalance < toTransfer
        THEN [h |-> h2, s |-> s, err |-> ErrorReply(NotEnoughFundsStr), val |-> 0]
        ELSE LET s2 == XADD(s, ms, exportJSON)
             IN  [h |-> h2, s |-> s2, err |-> Nil, val |-> LastID(s2)]

\* submitExportCmd without the check of the balance
submitExportCmdNoCheck(h, s, ms, user, amountStr, exportJSON) ==
    LET toTransfer == tonumber(amountStr)
        h2 == HINCRBY(h, user, (0 - 1) * toTransfer)
        s2 == XADD(s, ms, exportJSON)
    IN  [h |-> h2, s |-> s2, err |-> Nil, val |-> LastID(s2)]

submitExportCmd(h, s, ms, user, amountStr, exportJSON) ==
    LET toTransfer == tonumber(amountStr)
        srcBalance == NumberOrZero(HGET(h, user))
    IN  IF srcBalance < toTransfer
        THEN [h |-> h, s |-> s, err |-> ErrorReply(NotEnoughFundsStr), val |-> 0]
        ELSE LET h2 == HINCRBY(h, user, (0 - 1) * toTransfer)
                 s2 == XADD(s, ms, exportJSON)
             IN  [h |-> h2, s |-> s2, err |-> Nil, val |-> LastID(s2)]

\* ------------------------------------------------------ the Go methods
\* Each gives the state after the call and what the method returns.

\* a Balance that fails on the nil reply of a missing field
BalanceMissingFails(h, userID) ==
    IF HGET(h, userID) = Nil
    THEN [h |-> h, val |-> 0,
          err |-> Wrap("error retriving balance from redis",
                       ErrorsNew("resp.Unmarshal", "cannot scan nil into int"))]
    ELSE [h |-> h, val |-> BalanceOf(h, userID), err |-> Nil]

Balance(h, userID) ==
    [h |-> h, val |-> BalanceOf(h, userID), err |-> Nil]

Incr(h, userID, by) ==
    LET r == incrCmd(h, userID, Itoa(by))
        err == translateRedisErr(r.err)
    IN  IF err # Nil
        THEN [h |-> r.h, val |-> 0, err |-> Wrap("incrementing balance in redis", err)]
        ELSE [h |-> r.h, val |-> r.val, err |-> Nil]

Transfer(h, dstUserID, srcUserID, amount) ==
    LET r == transferCmd(h, dstUserID, srcUserID, Itoa(amount))
        err == translateRedisErr(r.err)
    IN  IF err # Nil
        THEN [h |-> r.h, val |-> <<0, 0>>, err |-> Wrap("transfering amount in redis", err)]
        ELSE [h |-> r.h, val |-> r.val, err |-> Nil]

\* SubmitExport refusing negative amounts only
SubmitExportAllowsZero(h, s, ms, e) ==
    IF e.Amount < 0
    THEN [h |-> h, s |-> s, val |-> Nil, err |-> ErrorsNew("fmt.Errorf", "malformed Export.Amount")]
    ELSE LET r == submitExportCmd(h, s, ms, e.FromUserID, Itoa(e.Amount), Marshal(e))
             err == translateRedisErr(r.err)
         IN  IF err # Nil
             THEN [h |-> r.h, s |-> r.s, val |-> Nil,
                   err |-> Wrap("error performing export command in redis", err)]
             ELSE [h |-> r.h, s |-> r.s, val |-> IDString(r.val), err |-> Nil]

\* SubmitExport without the check of Export.Amount
SubmitExportAnyAmount(h, s, ms, e) ==
    LET r == submitExportCmd(h, s, ms, e.FromUserID, Itoa(e.Amount), Marshal(e))
        err == translateRedisErr(r.err)
    IN  IF err # Nil
        THEN [h |-> r.h, s |-> r.s, val |-> Nil,
              err |-> Wrap("error performing export command in redis", err)]
        ELSE [h |-> r.h, s |-> r.s, val |-> IDString(r.val), err |-> Nil]

SubmitExport(h, s, ms, e) ==
    IF e.Amount <= 0
    THEN [h |-> h, s |-> s, val |-> Nil, err |-> ErrorsNew("fmt.Errorf", "malformed Export.Amount")]
    ELSE LET r == submitExportCmd(h, s, ms, e.FromUserID, Itoa(e.Amount), Marshal(e))
             err == translateRedisErr(r.err)
         IN  IF err # Nil
             THEN [h |-> r.h, s |-> r.s, val |-> Nil,
                   err |-> Wrap("error performing export command in redis", err)]
             ELSE [h |-> r.h, s |-> r.s, val |-> IDString(r.val), err |-> Nil]

\* ------------------------------------------------------------ the calls
Exports ==
    [FromUserID : Users, Amount : Amounts, Protocol : Protocols,
     ProtocolPayload : Payloads]

BalanceCalls == [op : {"Balance"}, userID : Users]
IncrCalls == [op : {"Incr"}, userID : Users, by : Amounts]
TransferCalls ==
    [op : {"Transfer"}, dstUserID : Users, srcUserID : Users, amount : Amounts]
SubmitCalls == [op : {"SubmitExport"}, e : Exports]

FundedSubmitCalls == {c \in SubmitCalls : c.e.Amount > 0}

Calls == BalanceCalls \cup IncrCalls \cup TransferCalls \cup SubmitCalls

RECURSIVE SumOver(_, _)
SumOver(f, S) ==
    IF S = {} THEN 0
    ELSE LET x == CHOOSE y \in S : TRUE IN f[x] + SumOver(f, S \ {x})

TotalBalance(h) == SumOver([u \in Users |-> BalanceOf(h, u)], Users)

\* the sum of the Amounts of the exports in the stream
RECURSIVE ExportedAmount(_)
ExportedAmount(s) ==
    IF Len(s) = 0 THEN 0
    ELSE ExportedAmount(SubSeq(s, 1, Len(s) - 1)) + Unmarshal(s[Len(s)].json).Amount

\* the result of running call c in the state (h, s) at redis clock ms
Run(c, h, s, ms) ==
    CASE c.op = "Balance" ->
            [s |-> s] @@ Balance(h, c.userID)
      [] c.op = "Incr" ->
            [s |-> s] @@ Incr(h, c.userID, c.by)
      [] c.op = "Transfer" ->
            [s |-> s] @@ Transfer(h, c.dstUserID, c.srcUserID, c.amount)
      [] c.op = "SubmitExport" ->
            SubmitExport(h, s, ms, c.e)

\* by how much a successful call changes a user's balance
Delta(c, u) ==
    CASE c.op = "Balance" -> 0
      [] c.op = "Incr" -> IF c.userID = u THEN c.by ELSE 0
      [] c.op = "Transfer" ->
            (IF c.dstUserID = u THEN c.amount ELSE 0)
            - (IF c.srcUserID = u THEN c.amount ELSE 0)
      [] c.op = "SubmitExport" -> IF c.e.FromUserID = u THEN 0 - c.e.Amount ELSE 0

NoRet == [op |-> "none"]

\* ------------------------------------------- the exports consumer group
\* redisBank.instanceID is never assigned: every call reads as consumer ""
instanceID(c) == ""

\* the other value of StreamOpts.InitialCursor: only entries added later
InitialCursorLatest == "$"

\* StreamOpts.InitialCursor of ConsumeExports' reader
InitialCursor == "0"

\* XGROUP CREATE key group cursor MKSTREAM: where a new group starts reading
GroupStart(s, cursor) == IF cursor = "0" THEN 0 ELSE Len(s)

\* the next entry never delivered to the group, or 0
NextNew(s, last) == IF last < Len(s) THEN last + 1 ELSE 0

\* the consumer's pending entries after the cursor
PendingAfter(p, consumer, cursor) ==
    {i \in DOMAIN p : p[i] = consumer /\ i > cursor}

Min(S) == CHOOSE i \in S : \A k \in S : i <= k

\* the entry leaves the group's pending entries
XACK(p, i) == [k \in DOMAIN p \ {i} |-> p[k]]

\* entry i becomes pending for the consumer it is delivered to
Deliver(p, i, consumer) ==
    [k \in DOMAIN p \cup {i} |-> IF k = i THEN consumer ELSE p[k]]

\* a reader as NewStream gives it: the group not yet initialised, and what
\* is left pending for the consumer to be delivered before anything else
NewStream == [hasInit |-> FALSE, pending |-> TRUE, cursor |-> 0]

NoReader == [hasInit |-> FALSE, pending |-> FALSE, cursor |-> 0]

\* an ExportInProgress whose Ack is the entry's Nack
MkExportInProgressAckNacks(c, i, s) ==
    [ID |-> IDString(s[i].ID),
     Export |-> Unmarshal(s[i].json),
     Ack |-> [do |-> "entry.Nack", idx |-> i],
     Nack |-> [do |-> "entry.Nack", idx |-> i],
     reader |-> c]

\* an ExportInProgress whose Nack returns nil without calling the entry's
MkExportInProgressNackForgets(c, i, s) ==
    [ID |-> IDString(s[i].ID),
     Export |-> Unmarshal(s[i].json),
     Ack |-> [do |-> "entry.Ack", idx |-> i],
     Nack |-> [do |-> "return nil", idx |-> i],
     reader |-> c]

\* the ExportInProgress ConsumeExports writes for entry i read by call c:
\* Ack is the entry's Ack, Nack calls the entry's Nack and returns nil
MkExportInProgress(c, i, s) ==
    [ID |-> IDString(s[i].ID),
     Export |-> Unmarshal(s[i].json),
     Ack |-> [do |-> "entry.Ack", idx |-> i],
     Nack |-> [do |-> "entry.Nack", idx |-> i],
     reader |-> c]

\* json.Unmarshal succeeds on what json.Marshal wrote
ValidJSON(j) == Marshal(Unmarshal(j)) = j

\* a ConsumeExports returning nil when its context is cancelled
ErrCanceledNil == Nil

ErrCanceled == ErrorsNew("context.Canceled", "context canceled")

NoEvent ==
    [type |-> "none", n |-> 0, user |-> "", other |-> "", amount |-> 0,
     ok |-> TRUE, did |-> "nothing"]

NoAck == [idx |-> 0, again |-> FALSE, err |-> Nil]

Range(q) == {q[i] : i \in 1..Len(q)}

\* ---------------------------------------------------------------- Init
Init ==
    /\ balances \in UNION {[D -> 0..MaxInit] : D \in SUBSET Users}
    /\ exports = <<>>
    /\ inCall = [t \in Threads |-> FALSE]
    /\ ret = NoRet
    /\ initial = [u \in Users |-> BalanceOf(balances, u)]
    /\ applied = [u \in Users |-> 0]
    /\ submitted = <<>>
    /\ minted = 0
    /\ step = 0
    /\ groupExists = FALSE
    /\ lastDelivered = 0
    /\ pel = <<>>
    /\ released = {}
    /\ cpc = [c \in Consumers |-> "off"]
    /\ ctxDone = FALSE
    /\ reader = [c \in Consumers |-> NoReader]
    /\ entry = [c \in Consumers |-> 0]
    /\ cerr = [c \in Consumers |-> Nil]
    /\ errs = 0
    /\ held = {}
    /\ written = {}
    /\ acked = {}
    /\ nacks = [i \in 1..MaxOrdered |-> 0]
    /\ needs = {}
    /\ readAfterAck = FALSE
    /\ chClosed = FALSE
    /\ receiving = TRUE
    /\ inflight = [c \in Consumers |-> {}]
    /\ order = <<>>
    /\ failed = {}
    /\ ackRet = NoAck
    /\ handedOff = {}
    /\ txOK = FALSE
    /\ ev = NoEvent
    /\ dms = <<>>
    /\ ops = <<>>
    /\ lastCursor = 0
    /\ savedCursor = 0
    /\ rpc = "off"
    /\ credited = <<>>
    /\ restarts = 0

\* -------------------------------------------------------------- actions
\* goroutine t enters a method of the bank; the call is in flight
Call(t) ==
    /\ ~inCall[t]
    /\ inCall' = [inCall EXCEPT ![t] = TRUE]
    /\ UNCHANGED <<balances, exports, ret, initial, applied, submitted,
                   minted, step>>
    /\ UNCHANGED exportVars
    /\ UNCHANGED appVars

\* the server runs the call c of goroutine t at clock ms and c returns
Complete(t, c, ms) ==
    /\ inCall[t]
    /\ \E r \in {Run(c, balances, exports, ms)} :
           /\ TotalBalance(r.h) <= MaxTotal
           /\ Len(r.s) <= MaxExports
           /\ balances' = r.h
           /\ exports' = r.s
           /\ ret' = [op |-> c.op, call |-> c, val |-> r.val, err |-> r.err]
           /\ applied' = [u \in Users |->
                            applied[u] + (IF r.err = Nil THEN Delta(c, u) ELSE 0)]
           /\ submitted' = IF c.op = "SubmitExport" /\ r.err = Nil
                            THEN Append(submitted, [id |-> r.val, e |-> c.e])
                            ELSE submitted
           /\ minted' = IF c.op = "Incr" /\ r.err = Nil
                         THEN minted + c.by
                         ELSE minted
    /\ inCall' = [inCall EXCEPT ![t] = FALSE]
    /\ UNCHANGED <<initial, step>>
    /\ UNCHANGED exportVars
    /\ UNCHANGED appVars

\* the clock redis may read: the last id's millisecond or a later one
Clock == LastID(exports)[1]..MaxClock

\* a goroutine calls ConsumeExports: a new reader on the exports stream
Start(c) ==
    /\ cpc[c] \in {"off", "ret"}
    /\ cpc' = [cpc EXCEPT ![c] = "top"]
    /\ reader' = [reader EXCEPT ![c] = NewStream]
    /\ cerr' = [cerr EXCEPT ![c] = Nil]
    /\ UNCHANGED <<groupExists, lastDelivered, pel, released, ctxDone, entry,
                   errs, held, written, acked, nacks, needs, readAfterAck,
                   chClosed, receiving, inflight, order, failed, ackRet>>
    /\ UNCHANGED ledgerVars
    /\ UNCHANGED appVars

\* the caller cancels the context it gave to the calls
Cancel ==
    /\ ~ctxDone
    /\ ctxDone' = TRUE
    /\ UNCHANGED <<groupExists, lastDelivered, pel, released, cpc, reader,
                   entry, cerr, errs, held, written, acked, nacks, needs,
                   readAfterAck, chClosed, receiving, inflight, order, failed,
                   ackRet>>
    /\ UNCHANGED ledgerVars
    /\ UNCHANGED appVars

\* the entries call c has written to the channel that are still pending and
\* that the receiver has neither acked nor nacked
Unsettled(c) ==
    {h.Ack.idx : h \in {x \in held : x.reader = c /\ x.Ack.idx \in DOMAIN pel}}

\* an ExportInProgress of a call that has returned: its reader is gone
Orphan(h) == [h EXCEPT !.reader = 0]

\* ConsumeExports returns err and its reader is gone: what it delivered and
\* is neither acked nor nacked is released for delivery to a live reader;
\* the channel is left as it is
Return(c, err) ==
    /\ cpc' = [cpc EXCEPT ![c] = "ret"]
    /\ cerr' = [cerr EXCEPT ![c] = err]
    /\ reader' = [reader EXCEPT ![c] = NoReader]
    /\ entry' = [entry EXCEPT ![c] = 0]
    /\ released' = released \cup Unsettled(c)
    /\ needs' = needs \cup Unsettled(c)
    /\ held' = {IF h.reader = c THEN Orphan(h) ELSE h : h \in held}
    /\ inflight' = [inflight EXCEPT ![c] = {}]
    /\ chClosed' = chClosed

\* a loop that never looks at its context
CheckCtxIgnores(c) ==
    /\ cpc[c] = "top"
    /\ cpc' = [cpc EXCEPT ![c] = "next"]
    /\ UNCHANGED <<groupExists, lastDelivered, pel, released, ctxDone, reader,
                   entry, cerr, errs, held, written, acked, nacks, needs,
                   readAfterAck, chClosed, receiving, inflight, order, failed,
                   ackRet>>
    /\ UNCHANGED ledgerVars
    /\ UNCHANGED appVars

\* the top of the loop: the context is checked before every read
CheckCtx(c) ==
    /\ cpc[c] = "top"
    /\ IF ctxDone
       THEN Return(c, ErrCanceled)
       ELSE /\ cpc' = [cpc EXCEPT ![c] = "next"]
            /\ UNCHANGED <<released, reader, entry, cerr, needs, held,
                           inflight, chClosed>>
    /\ UNCHANGED <<groupExists, lastDelivered, pel, ctxDone, errs, written,
                   acked, nacks, readAfterAck, receiving, order, failed, ackRet>>
    /\ UNCHANGED ledgerVars
    /\ UNCHANGED appVars

\* reader.Next fails (the connection, the server): ConsumeExports returns
NextFails(c) ==
    /\ cpc[c] = "next"
    /\ errs < MaxErrs
    /\ errs' = errs + 1
    /\ Return(c, Wrap("error consuming next Export from stream",
                       ErrorsNew("net.OpError", "i/o timeout")))
    /\ UNCHANGED <<groupExists, lastDelivered, pel, ctxDone, written, acked,
                   nacks, readAfterAck, receiving, order, failed, ackRet>>
    /\ UNCHANGED ledgerVars
    /\ UNCHANGED appVars

\* reader.Next: the group is created on the reader's first read; a reader
\* just opened is first given what is left pending for its consumer, then a
\* reader is given a released entry, then the next new entry, which becomes
\* pending; with none of these the read times out and nothing is found
ReadNext(c) ==
    /\ cpc[c] = "next"
    /\ groupExists' = TRUE
    /\ readAfterAck' = (readAfterAck \/ acked # {})
    /\ LET last == IF groupExists THEN lastDelivered
                   ELSE GroupStart(exports, InitialCursor)
           pend == IF reader[c].pending
                   THEN PendingAfter(pel, instanceID(c), reader[c].cursor) ELSE {}
           new == NextNew(exports, last)
       IN  IF pend # {}
           THEN /\ entry' = [entry EXCEPT ![c] = Min(pend)]
                /\ reader' = [reader EXCEPT ![c] =
                      [hasInit |-> TRUE, pending |-> TRUE, cursor |-> Min(pend)]]
                /\ cpc' = [cpc EXCEPT ![c] = "send"]
                /\ released' = released \ {Min(pend)}
                /\ lastDelivered' = last
                /\ pel' = pel
           ELSE IF released # {}
           THEN /\ entry' = [entry EXCEPT ![c] = Min(released)]
                /\ reader' = [reader EXCEPT ![c] =
                      [hasInit |-> TRUE, pending |-> FALSE, cursor |-> 0]]
                /\ cpc' = [cpc EXCEPT ![c] = "send"]
                /\ released' = released \ {Min(released)}
                /\ lastDelivered' = last
                /\ pel' = Deliver(pel, Min(released), instanceID(c))
           ELSE IF new # 0
           THEN /\ entry' = [entry EXCEPT ![c] = new]
                /\ reader' = [reader EXCEPT ![c] =
                      [hasInit |-> TRUE, pending |-> FALSE, cursor |-> 0]]
                /\ cpc' = [cpc EXCEPT ![c] = "send"]
                /\ lastDelivered' = new
                /\ pel' = Deliver(pel, new, instanceID(c))
                /\ released' = released
           ELSE /\ reader' = [reader EXCEPT ![c] =
                      [hasInit |-> TRUE, pending |-> FALSE, cursor |-> 0]]
                /\ cpc' = [cpc EXCEPT ![c] = "top"]
                /\ lastDelivered' = last
                /\ UNCHANGED <<entry, pel, released>>
    /\ inflight' = IF cpc'[c] = "send"
                   THEN [inflight EXCEPT ![c] = @ \cup {entry'[c]}]
                   ELSE inflight
    /\ UNCHANGED <<ctxDone, cerr, errs, held, written, acked, nacks, needs,
                   chClosed, receiving, order, failed, ackRet>>
    /\ UNCHANGED ledgerVars
    /\ UNCHANGED appVars

\* the entry is unmarshalled and written to the channel; the channel is
\* unbuffered, so the write is the receiver taking the ExportInProgress,
\* with which it has done nothing yet
Send(c) ==
    /\ cpc[c] = "send"
    /\ IF ValidJSON(exports[entry[c]].json)
       THEN /\ held' = held \cup {MkExportInProgress(c, entry[c], exports)}
            /\ written' = written \cup {entry[c]}
            /\ needs' = needs \ {entry[c]}
            /\ order' = IF IDString(exports[entry[c]].ID) \in Range(order)
                        THEN order
                        ELSE Append(order, IDString(exports[entry[c]].ID))
            /\ failed' = failed \ {entry[c]}
            /\ cpc' = [cpc EXCEPT ![c] = "top"]
            /\ entry' = [entry EXCEPT ![c] = 0]
            /\ txOK' = FALSE
            /\ UNCHANGED <<released, reader, cerr, inflight, chClosed>>
       ELSE /\ Return(c, Wrap("error unmarshaling Export",
                               ErrorsNew("json.SyntaxError", "invalid character")))
            /\ UNCHANGED <<written, order, failed, txOK>>
    /\ UNCHANGED <<groupExists, lastDelivered, pel, ctxDone, errs, acked,
                   nacks, readAfterAck, receiving, ackRet>>
    /\ UNCHANGED ledgerVars
    /\ UNCHANGED <<handedOff, ev, dms, depositVars>>

\* what calling one of an ExportInProgress' two functions does: the entry's
\* Ack marks the entry processed for the group, the entry's Nack releases
\* it, while pending, for another delivery
Invoke(f) ==
    IF f.do = "entry.Ack"
    THEN /\ pel' = XACK(pel, f.idx)
         /\ released' = released \ {f.idx}
    ELSE IF f.do = "entry.Nack"
    THEN /\ released' = released \cup ({f.idx} \cap DOMAIN pel)
         /\ pel' = pel
    ELSE UNCHANGED <<pel, released>>

\* what the entry's Ack returns with the store reachable: no error, whether
\* the entry is still pending or was acked before
EntryAckErr(p, i) == Nil

\* an Ack that refuses to be called for an entry that was acked before
InvokeErrOnce(f) ==
    IF f.do = "entry.Ack" /\ f.idx \in acked
    THEN ErrorsNew("errors.errorString", "already acked")
    ELSE Nil

\* what calling f returns: the Ack is the entry's own, the Nack returns nil
InvokeErr(f) ==
    IF f.do = "entry.Ack" THEN EntryAckErr(pel, f.idx) ELSE Nil

\* the receiver calls Ack and lets go of the ExportInProgress
AckEntry(h) ==
    /\ h \in held
    /\ Invoke(h.Ack)
    /\ ackRet' = [idx |-> h.Ack.idx, again |-> h.Ack.idx \in acked,
                  err |-> InvokeErr(h.Ack)]
    /\ held' = held \ {h}
    /\ acked' = IF InvokeErr(h.Ack) = Nil THEN acked \cup {h.Ack.idx} ELSE acked
    /\ needs' = needs \ {h.Ack.idx}
    /\ inflight' = [c \in Consumers |-> inflight[c] \ {h.Ack.idx}]
    /\ failed' = failed \ {h.Ack.idx}
    /\ UNCHANGED <<groupExists, lastDelivered, cpc, ctxDone, reader, entry,
                   cerr, errs, written, nacks, readAfterAck, chClosed,
                   receiving, order>>
    /\ UNCHANGED ledgerVars

\* Ack called by a receiver that does nothing else in the step
Ack(h) ==
    /\ AckEntry(h)
    /\ UNCHANGED appVars

\* the receiver calls Nack, gets nil and lets go of the ExportInProgress
Nack(h) ==
    /\ h \in held
    /\ nacks[h.Nack.idx] < MaxNacks
    /\ Invoke(h.Nack)
    /\ held' = held \ {h}
    /\ nacks' = [nacks EXCEPT ![h.Nack.idx] = @ + 1]
    /\ needs' = needs \cup ({h.Nack.idx} \cap DOMAIN pel)
    /\ inflight' = [c \in Consumers |->
                      IF c = h.reader THEN inflight[c] \ {h.Nack.idx}
                      ELSE inflight[c]]
    /\ UNCHANGED <<groupExists, lastDelivered, cpc, ctxDone, reader, entry,
                   cerr, errs, written, acked, readAfterAck, chClosed,
                   receiving, order, failed, ackRet>>
    /\ UNCHANGED ledgerVars
    /\ UNCHANGED appVars

\* every ExportInProgress there can be: of a running call or of one that
\* has returned
Handles ==
    LET live == {MkExportInProgress(c, i, exports) :
                    c \in Consumers, i \in 1..Len(exports)}
    IN  live \cup {Orphan(h) : h \in live}

Next ==
    \/ \E t \in Threads : Call(t)
    \/ \E t \in Threads : \E c \in BalanceCalls : Complete(t, c, 0)
    \/ \E t \in Threads : \E c \in IncrCalls : Complete(t, c, 0)
    \/ \E t \in Threads : \E c \in TransferCalls : Complete(t, c, 0)
    \/ \E t \in Threads : \E c \in SubmitCalls : \E ms \in Clock : Complete(t, c, ms)

Spec == Init /\ [][Next]_vars

\* the exports side: one goroutine submits, the calls of ConsumeExports
\* read, a receiver takes what they write and acks or nacks it
ExportInit ==
    /\ Init
    /\ \A u \in Users : initial[u] = MaxInit

\* the submitters alone: funded users, concurrent SubmitExports, and a redis
\* clock that may stand still, advance or fall back between two of them
Ticks == 0..MaxTick

IDNext ==
    \/ \E t \in Threads : Call(t)
    \/ \E t \in Threads : \E c \in SubmitCalls : \E ms \in Ticks : Complete(t, c, ms)

IDSpec == ExportInit /\ [][IDNext]_vars

\* the submitting goroutine's call is a SubmitExport of a positive amount
Submit(c, ms) ==
    /\ Len(exports) < MaxQueued
    /\ Complete(1, c, ms)

ExportNext ==
    \/ Call(1)
    \/ \E c \in FundedSubmitCalls : \E ms \in Clock : Submit(c, ms)
    \/ \E c \in Consumers : Start(c)
    \/ Cancel
    \/ \E c \in Consumers : CheckCtx(c)
    \/ \E c \in Consumers : NextFails(c)
    \/ \E c \in Consumers : ReadNext(c)
    \/ \E c \in Consumers : Send(c)
    \/ \E h \in Handles : Ack(h)
    \/ \E h \in Handles : Nack(h)

ExportSpec == ExportInit /\ [][ExportNext]_vars

\* the same with what the claims about delivery take for granted: the
\* context is not cancelled, a running call takes its next step, the
\* receiver takes what is written, and call 1 is called again whenever it
\* has returned
LiveNext ==
    \/ Call(1)
    \/ \E c \in FundedSubmitCalls : \E ms \in Clock : Submit(c, ms)
    \/ \E c \in Consumers : Start(c)
    \/ \E c \in Consumers : CheckCtx(c)
    \/ \E c \in Consumers : NextFails(c)
    \/ \E c \in Consumers : ReadNext(c)
    \/ \E c \in Consumers : Send(c)
    \/ \E h \in Handles : Ack(h)
    \/ \E h \in Handles : Nack(h)

Fairness ==
    /\ WF_vars(Start(1))
    /\ \A c \in Consumers : WF_vars(CheckCtx(c))
    /\ \A c \in Consumers : WF_vars(ReadNext(c))
    /\ \A c \in Consumers : WF_vars(Send(c))

LiveSpec == ExportInit /\ [][LiveNext]_vars /\ Fairness

\* ------------------------------------------- the handlers of main.go

\* what the handler of a slack event or command was given and what it did
Event(type, user, other, amount, ok, did) ==
    [type |-> type, user |-> user, other |-> other, amount |-> amount,
     ok |-> ok, did |-> did]

\* a handler's call of a Bank method, from the call to its return
Serve(c, ms) ==
    /\ \E r \in {Run(c, balances, exports, ms)} :
           /\ TotalBalance(r.h) <= MaxTotal
           /\ Len(r.s) <= MaxQueued
           /\ balances' = r.h
           /\ exports' = r.s
           /\ ret' = [op |-> c.op, call |-> c, val |-> r.val, err |-> r.err]
           /\ applied' = [u \in Users |->
                            applied[u] + (IF r.err = Nil THEN Delta(c, u) ELSE 0)]
           /\ submitted' = IF c.op = "SubmitExport" /\ r.err = Nil
                            THEN Append(submitted, [id |-> r.val, e |-> c.e])
                            ELSE submitted
           /\ minted' = IF c.op = "Incr" /\ r.err = Nil
                         THEN minted + c.by
                         ELSE minted
    /\ UNCHANGED <<inCall, initial, step>>

\* the users an event can name: ItemUser is empty when the item reacted to
\* has no author
ItemUsers == Users \cup {""}

\* a reaction_added handler that also counts a user's reaction to their own
\* message
ReactionAddedCountsOwn(user, itemUser) ==
    /\ IF itemUser = ""
       THEN /\ UNCHANGED ledgerVars
            /\ ev' = Event("reaction_added", user, itemUser, 1, TRUE, "nothing")
       ELSE /\ Serve([op |-> "Incr", userID |-> itemUser, by |-> 1], 0)
            /\ ev' = Event("reaction_added", user, itemUser, 1, TRUE, "Incr")
    /\ UNCHANGED exportVars
    /\ UNCHANGED <<handedOff, txOK, dms, depositVars>>

\* processSlackEvent, "reaction_added": user reacted to a message of itemUser
ReactionAdded(user, itemUser) ==
    /\ IF user = itemUser \/ itemUser = ""
       THEN /\ UNCHANGED ledgerVars
            /\ ev' = Event("reaction_added", user, itemUser, 1, TRUE, "nothing")
       ELSE /\ Serve([op |-> "Incr", userID |-> itemUser, by |-> 1], 0)
            /\ ev' = Event("reaction_added", user, itemUser, 1, TRUE, "Incr")
    /\ UNCHANGED exportVars
    /\ UNCHANGED <<handedOff, txOK, dms, depositVars>>

\* a reaction_removed handler that logs every error of the Incr
ReactionRemovedReports(user, itemUser) ==
    /\ IF user = itemUser \/ itemUser = ""
       THEN /\ UNCHANGED ledgerVars
            /\ ev' = Event("reaction_removed", user, itemUser, 1, TRUE, "nothing")
       ELSE /\ Serve([op |-> "Incr", userID |-> itemUser, by |-> 0 - 1], 0)
            /\ ev' = Event("reaction_removed", user, itemUser, 1, TRUE,
                           IF ret'.err # Nil THEN "error logged" ELSE "Incr")
    /\ UNCHANGED exportVars
    /\ UNCHANGED <<handedOff, txOK, dms, depositVars>>

\* processSlackEvent, "reaction_removed": an error of the Incr is logged
\* unless it is ErrNotEnoughFunds
ReactionRemoved(user, itemUser) ==
    /\ IF user = itemUser \/ itemUser = ""
       THEN /\ UNCHANGED ledgerVars
            /\ ev' = Event("reaction_removed", user, itemUser, 1, TRUE, "nothing")
       ELSE /\ Serve([op |-> "Incr", userID |-> itemUser, by |-> 0 - 1], 0)
            /\ ev' = Event("reaction_removed", user, itemUser, 1, TRUE,
                           IF /\ ret'.err # Nil
                              /\ ~ErrorsIs(ret'.err, ErrNotEnoughFunds)
                           THEN "error logged"
                           ELSE "Incr")
    /\ UNCHANGED exportVars
    /\ UNCHANGED <<handedOff, txOK, dms, depositVars>>

\* a give that does not look at who the destination is
GiveToAnyone(userID, dstUser, amount) ==
    /\ IF amount <= 0
       THEN /\ UNCHANGED ledgerVars
            /\ ev' = Event("give", userID, dstUser, amount, TRUE,
                           "amount must be greater than 0")
       ELSE /\ Serve([op |-> "Transfer", dstUserID |-> dstUser,
                      srcUserID |-> userID, amount |-> amount], 0)
            /\ ev' = Event("give", userID, dstUser, amount, TRUE, "Transfer")
    /\ UNCHANGED exportVars
    /\ UNCHANGED <<handedOff, txOK, dms, depositVars>>

\* processSlackMsg, "give": userID gives amount to dstUser
Give(userID, dstUser, amount) ==
    /\ IF amount <= 0
       THEN /\ UNCHANGED ledgerVars
            /\ ev' = Event("give", userID, dstUser, amount, TRUE,
                           "amount must be greater than 0")
       ELSE IF dstUser = userID
       THEN /\ UNCHANGED ledgerVars
            /\ ev' = Event("give", userID, dstUser, amount, TRUE,
                           "quit playing with yourself, kid")
       ELSE /\ Serve([op |-> "Transfer", dstUserID |-> dstUser,
                      srcUserID |-> userID, amount |-> amount], 0)
            /\ ev' = Event("give", userID, dstUser, amount, TRUE, "Transfer")
    /\ UNCHANGED exportVars
    /\ UNCHANGED <<handedOff, txOK, dms, depositVars>>

\* a withdraw that submits the export whether or not the transaction could
\* be constructed
WithdrawIgnoresXDRErr(userID, amount, xdrOK) ==
    /\ IF amount <= 0
       THEN /\ UNCHANGED ledgerVars
            /\ ev' = Event("withdraw", userID, "", amount, xdrOK,
                           "amount must be greater than 0")
       ELSE /\ \E ms \in Clock :
                   Serve([op |-> "SubmitExport",
                          e |-> [FromUserID |-> userID,
                                 Amount |-> amount,
                                 Protocol |-> "stellar",
                                 ProtocolPayload |-> "xdr"]], ms)
            /\ ev' = Event("withdraw", userID, "", amount, xdrOK, "SubmitExport")
    /\ UNCHANGED exportVars
    /\ UNCHANGED <<handedOff, txOK, dms, depositVars>>

\* processSlackMsg, "withdraw": MakeSendXDR constructs the transaction
\* (xdrOK: it succeeded), then the export is submitted to the bank
Withdraw(userID, amount, xdrOK) ==
    /\ IF amount <= 0
       THEN /\ UNCHANGED ledgerVars
            /\ ev' = Event("withdraw", userID, "", amount, xdrOK,
                           "amount must be greater than 0")
       ELSE IF ~xdrOK
       THEN /\ UNCHANGED ledgerVars
            /\ ev' = Event("withdraw", userID, "", amount, xdrOK,
                           "MakeSendXDR failed")
       ELSE /\ \E ms \in Clock :
                   Serve([op |-> "SubmitExport",
                          e |-> [FromUserID |-> userID,
                                 Amount |-> amount,
                                 Protocol |-> "stellar",
                                 ProtocolPayload |-> "xdr"]], ms)
            /\ ev' = Event("withdraw", userID, "", amount, xdrOK, "SubmitExport")
    /\ UNCHANGED exportVars
    /\ UNCHANGED <<handedOff, txOK, dms, depositVars>>

\* processExport: SubmitTransactionXDR returns success for the export being
\* processed
SubmitTx(h) ==
    /\ h \in held
    /\ ~txOK
    /\ h.Export.Protocol = "stellar"
    /\ txOK' = TRUE
    /\ handedOff' = handedOff \cup {h.Ack.idx}
    /\ UNCHANGED <<ev, dms, depositVars>>
    /\ UNCHANGED exportVars
    /\ UNCHANGED ledgerVars

\* a processExport that acks without waiting for the submission
AppAckFirst(h) == Ack(h)

\* processExport: e.Ack() once the submission has returned success
\* and, when it returned nil, the "transaction was successful" message to
\* the user, unless the user's IM channel cannot be retrieved
AppAck(h) ==
    /\ txOK
    /\ AckEntry(h)
    /\ \E imOK \in BOOLEAN :
           dms' = IF InvokeErr(h.Ack) = Nil /\ imOK
                  THEN Append(dms, h.Ack.idx)
                  ELSE dms
    /\ UNCHANGED <<handedOff, txOK, ev, depositVars>>

\* ------------------------------------------------------------ the claims
\* this step is the return of a call of method op
Completes(op) ==
    /\ \E t \in Threads : inCall[t] /\ ~inCall'[t]
    /\ ret'.op = op

\* C1: whatever the interleaving of the calls in flight, every user's
\* balance is the initial balance plus the sum of the deltas of the calls
\* that returned success: nothing is lost, nothing is applied twice.
C1_BalanceIsInitialPlusApplied ==
    \A u \in Users : BalanceOf(balances, u) = initial[u] + applied[u]

\* a successful call has returned while another call was in flight, and the
\* balances moved
C1_Witness ==
    /\ ret.op \in {"Incr", "Transfer", "SubmitExport"}
    /\ ret.err = Nil
    /\ \E t \in Threads : inCall[t]
    /\ \E u \in Users : applied[u] # 0

\* C2: a SubmitExport either takes Amount off the balance of FromUserID and
\* appends exactly one entry, the export's, to the stream (and returns its
\* id), or changes neither the balances nor the stream.
C2_SubmitExportAllOrNothing ==
    [][Completes("SubmitExport") =>
        LET e == ret'.call.e IN
        \/ /\ ret'.err = Nil
           /\ \A u \in Users :
                 BalanceOf(balances', u) = BalanceOf(balances, u) + Delta(ret'.call, u)
           /\ Len(exports') = Len(exports) + 1
           /\ SubSeq(exports', 1, Len(exports)) = exports
           /\ Unmarshal(exports'[Len(exports')].json) = e
           /\ ret'.val = IDString(exports'[Len(exports')].ID)
        \/ /\ ret'.err # Nil
           /\ balances' = balances
           /\ exports' = exports]_vars

\* an export was submitted: the amount is off the balance and in the stream
C2_Witness ==
    /\ ret.op = "SubmitExport"
    /\ ret.err = Nil
    /\ Len(exports) = 1
    /\ Unmarshal(exports[1].json).Amount = ret.call.e.Amount
    /\ BalanceOf(balances, ret.call.e.FromUserID)
          = initial[ret.call.e.FromUserID] - ret.call.e.Amount

\* C3: a Transfer either adds amount to dst and takes it from src, or changes
\* no balance; a Balance returns the balance of a state in which every
\* transfer is whole, and changes nothing.
C3_TransferAtomic ==
    [][/\ Completes("Transfer") =>
            \/ /\ ret'.err = Nil
               /\ \A u \in Users :
                     BalanceOf(balances', u)
                        = BalanceOf(balances, u) + Delta(ret'.call, u)
            \/ /\ ret'.err # Nil
               /\ balances' = balances
       /\ Completes("Balance") =>
            /\ ret'.val = BalanceOf(balances, ret'.call.userID)
            /\ balances' = balances]_vars

\* a transfer between two users succeeded
C3_Witness ==
    /\ ret.op = "Transfer"
    /\ ret.err = Nil
    /\ ret.call.dstUserID # ret.call.srcUserID
    /\ ret.call.amount > 0
    /\ BalanceOf(balances, ret.call.dstUserID) = ret.val[1]

\* C4: no balance is ever negative.
C4_BalancesNonNegative ==
    \A u \in Users : BalanceOf(balances, u) >= 0

\* a transfer of a negative amount succeeded
C4_Witness ==
    /\ ret.op = "Transfer"
    /\ ret.err = Nil
    /\ ret.call.amount < 0
    /\ ret.call.dstUserID # ret.call.srcUserID

C6_NackedDeliveredAgain ==
    \A i \in 1..MaxQueued : (i \in needs) ~> (i \notin needs)

\* a nacked entry, still pending, has been written to a channel again
C6_Witness ==
    \E i \in 1..MaxQueued :
        /\ nacks[i] > 0
        /\ i \in DOMAIN pel
        /\ i \notin needs
        /\ i \notin acked

\* C7: every export whose SubmitExport returned nil is written to the
\* channel of some call at least once, also when it was submitted before
\* the group existed, given that a call keeps running or is called again
\* and that the receiver takes what is written.
C7_SubmittedEventuallyWritten ==
    \A i \in 1..MaxQueued : (Len(exports) >= i) ~> (i \in written)

\* the export SubmitExport returned the id of has been written to a channel
C7_Witness ==
    /\ ret.op = "SubmitExport"
    /\ ret.err = Nil
    /\ \E i \in written : IDString(exports[i].ID) = ret.val

\* C8: Incr(u, by) with balance(u) + by < 0 returns ErrNotEnoughFunds and
\* leaves the balances as they are, also when u has no recorded balance.
C8_IncrNotEnoughFunds ==
    [][(/\ Completes("Incr")
        /\ BalanceOf(balances, ret'.call.userID) + ret'.call.by < 0) =>
            /\ ErrorsIs(ret'.err, ErrNotEnoughFunds)
            /\ balances' = balances]_vars

\* an Incr of a user with no recorded balance was refused
C8_Witness ==
    /\ ret.op = "Incr"
    /\ ret.call.by < 0
    /\ ret.call.userID \notin DOMAIN balances
    /\ ErrorsIs(ret.err, ErrNotEnoughFunds)

\* C9: Transfer(dst, src, amount) with amount > balance(src) returns
\* ErrNotEnoughFunds and leaves the balances as they are.
C9_TransferNotEnoughFunds ==
    [][(/\ Completes("Transfer")
        /\ ret'.call.amount > BalanceOf(balances, ret'.call.srcUserID)) =>
            /\ ErrorsIs(ret'.err, ErrNotEnoughFunds)
            /\ balances' = balances]_vars

\* a transfer of more than src has was refused while src has something
C9_Witness ==
    /\ ret.op = "Transfer"
    /\ ErrorsIs(ret.err, ErrNotEnoughFunds)
    /\ ret.call.amount > BalanceOf(balances, ret.call.srcUserID)
    /\ BalanceOf(balances, ret.call.srcUserID) > 0

\* C10: SubmitExport succeeds exactly when Amount > 0 and the balance of
\* FromUserID is at least Amount; with a lower balance it returns
\* ErrNotEnoughFunds and changes neither the balances nor the stream.
C10_SubmitExportSucceedsIff ==
    [][Completes("SubmitExport") =>
        LET e == ret'.call.e
            bal == BalanceOf(balances, e.FromUserID)
        IN  /\ ret'.err = Nil <=> (e.Amount > 0 /\ bal >= e.Amount)
            /\ bal < e.Amount =>
                  /\ ErrorsIs(ret'.err, ErrNotEnoughFunds)
                  /\ balances' = balances
                  /\ exports' = exports]_vars

\* a SubmitExport of more than the balance was refused
C10_Witness ==
    /\ ret.op = "SubmitExport"
    /\ ErrorsIs(ret.err, ErrNotEnoughFunds)
    /\ ret.call.e.Amount > BalanceOf(balances, ret.call.e.FromUserID)
    /\ exports = <<>>

\* C11: a SubmitExport with Amount <= 0 returns an error that is not the
\* store's, and changes neither the balances nor the stream.
C11_NonPositiveAmountRefused ==
    [][(Completes("SubmitExport") /\ ret'.call.e.Amount <= 0) =>
            /\ ret'.err # Nil
            /\ \A i \in 1..Len(ret'.err) : ret'.err[i].is # "resp2.Error"
            /\ ~ErrorsIs(ret'.err, ErrNotEnoughFunds)
            /\ balances' = balances
            /\ exports' = exports
            /\ submitted' = submitted]_vars

\* a SubmitExport of a negative amount by a user with funds was refused
C11_Witness ==
    /\ ret.op = "SubmitExport"
    /\ ret.call.e.Amount < 0
    /\ ret.err # Nil
    /\ BalanceOf(balances, ret.call.e.FromUserID) > 0
    /\ exports = <<>>

\* C18: the ids returned by the successful SubmitExports are pairwise
\* distinct and strictly increasing in the order the calls took effect.
C18_IDsIncrease ==
    \A j \in 1..Len(submitted) : \A k \in 1..Len(submitted) :
        j < k => /\ submitted[j].id # submitted[k].id
                 /\ IDLess(ParseID(submitted[j].id), ParseID(submitted[k].id))

\* two exports were submitted, the second at a clock behind the first's id
C18_Witness ==
    /\ Len(submitted) = 2
    /\ ParseID(submitted[1].id)[1] > 0
    /\ ParseID(submitted[2].id)[2] > 0
    /\ \E t \in Threads : inCall[t]

\* C20: a successful Incr(u, by) returns the old balance of u (0 when u has
\* none) plus by, and a Balance(u) right after it returns that value; a
\* Balance returns 0 for a user with no recorded balance, never fails on it
\* and changes no state.
C20_IncrAndBalanceValues ==
    [][/\ (Completes("Incr") /\ ret'.err = Nil) =>
            /\ ret'.val = BalanceOf(balances, ret'.call.userID) + ret'.call.by
            /\ Balance(balances', ret'.call.userID).err = Nil
            /\ Balance(balances', ret'.call.userID).val = ret'.val
       /\ Completes("Balance") =>
            /\ ret'.err = Nil
            /\ ret'.val = IF ret'.call.userID \in DOMAIN balances
                          THEN balances[ret'.call.userID] ELSE 0
            /\ balances' = balances
            /\ exports' = exports]_vars

\* an Incr gave a user with no recorded balance a balance
C20_Witness ==
    /\ ret.op = "Incr"
    /\ ret.err = Nil
    /\ ret.call.by > 0
    /\ initial[ret.call.userID] = 0
    /\ applied[ret.call.userID] = ret.call.by
    /\ ret.val = ret.call.by

\* C12: ConsumeExports never returns nil and never closes the channel it
\* was given: whichever way a call leaves its loop (the context cancelled, a
\* failed read, an entry that does not unmarshal), the error it returns is
\* not nil and the channel is still open.
C12_NeverNilNeverCloses ==
    [][\A c \in Consumers :
          (cpc[c] # "ret" /\ cpc'[c] = "ret") =>
              (cerr'[c] # Nil /\ ~chClosed')]_vars

\* one call has returned on the cancelled context, another on a failed read
C12_Witness ==
    \E c, d \in Consumers :
        /\ cpc[c] = "ret" /\ cerr[c] = ErrCanceled
        /\ cpc[d] = "ret" /\ cerr[d] # Nil /\ ~ErrorsIs(cerr[d], ErrCanceled)
        /\ ~chClosed

\* a loop that calls ConsumeExports once and leaves whatever it returns
AppStartOnce ==
    /\ cpc[1] = "off"
    /\ Start(1)

\* the application of main.go: the slack handler submits, one goroutine
\* calls ConsumeExports and calls it again after an error that is not
\* context.Canceled, processExports takes one ExportInProgress at a time
\* from the unbuffered channel and runs processExport on it
AppStart ==
    /\ cpc[1] = "off" \/ (cpc[1] = "ret" /\ ~ErrorsIs(cerr[1], ErrCanceled))
    /\ Start(1)

\* processExports' select takes what ConsumeExports is writing
AppSend ==
    /\ receiving
    /\ held = {}
    /\ Send(1)

\* processExports' select takes ctx.Done() and processExports returns:
\* nothing reads the channel any more
ReceiverStops ==
    /\ ctxDone
    /\ receiving
    /\ held = {}
    /\ receiving' = FALSE
    /\ UNCHANGED <<groupExists, lastDelivered, pel, released, cpc, ctxDone,
                   reader, entry, cerr, errs, held, written, acked, nacks,
                   needs, readAfterAck, chClosed, inflight, order, failed, ackRet>>
    /\ UNCHANGED ledgerVars
    /\ UNCHANGED appVars

\* processExport fails (the protocol is unknown, the submission to Stellar
\* fails, the Ack fails): it returns the error, which is logged; Nack is not
\* called and the ExportInProgress is dropped
ProcessFails(h) ==
    /\ h \in held
    /\ held' = held \ {h}
    /\ failed' = failed \cup ({h.Ack.idx} \cap DOMAIN pel)
    /\ UNCHANGED <<groupExists, lastDelivered, pel, released, cpc, ctxDone,
                   reader, entry, cerr, errs, written, acked, nacks, needs,
                   readAfterAck, chClosed, receiving, inflight, order, ackRet>>
    /\ UNCHANGED ledgerVars
    /\ UNCHANGED appVars

AppNext ==
    \/ Call(1)
    \/ \E c \in FundedSubmitCalls : \E ms \in Clock : Submit(c, ms)
    \/ AppStart
    \/ Cancel
    \/ CheckCtx(1)
    \/ NextFails(1)
    \/ ReadNext(1)
    \/ AppSend
    \/ ReceiverStops
    \/ \E h \in Handles : Ack(h)
    \/ \E h \in Handles : ProcessFails(h)

\* every goroutine of the application takes its next step, and processExport
\* comes to an end
AppFairness ==
    /\ WF_vars(AppStart)
    /\ WF_vars(CheckCtx(1))
    /\ WF_vars(ReadNext(1))
    /\ WF_vars(AppSend)
    /\ WF_vars(ReceiverStops)
    /\ WF_vars(\E h \in Handles : Ack(h) \/ ProcessFails(h))

AppSpec == ExportInit /\ [][AppNext]_vars /\ AppFairness

\* the handlers of the slack events and commands
BotNext ==
    \/ \E user \in Users : \E itemUser \in ItemUsers :
           ReactionAdded(user, itemUser)
    \/ \E user \in Users : \E itemUser \in ItemUsers :
           ReactionRemoved(user, itemUser)
    \/ \E userID \in Users : \E dstUser \in Users : \E amount \in Amounts :
           Give(userID, dstUser, amount)
    \/ \E userID \in Users : \E amount \in Amounts : \E xdrOK \in BOOLEAN :
           Withdraw(userID, amount, xdrOK)

\* withdraw commands and the goroutines that consume and process the exports
PayoutNext ==
    \/ \E userID \in Users : \E amount \in Amounts : \E xdrOK \in BOOLEAN :
           Withdraw(userID, amount, xdrOK)
    \/ AppStart
    \/ CheckCtx(1)
    \/ NextFails(1)
    \/ ReadNext(1)
    \/ AppSend
    \/ \E h \in Handles : SubmitTx(h)
    \/ \E h \in Handles : AppAck(h)
    \/ \E h \in Handles : ProcessFails(h)

PayoutSpec == ExportInit /\ [][PayoutNext]_vars

\* the application starts on a store that holds no balance yet
BotInit ==
    /\ Init
    /\ balances = <<>>

BotSpec == BotInit /\ [][BotNext]_vars

\* a step in which a handler ran
EventStep == ev' # ev \/ balances' # balances \/ exports' # exports

\* C13: once the context is cancelled, a running ConsumeExports returns
\* context.Canceled (within one read of the stream).
C13_CancelledReturnsCanceled ==
    (ctxDone /\ cpc[1] \in {"top", "next", "send"})
        ~> (cpc[1] = "ret" /\ ErrorsIs(cerr[1], ErrCanceled))

\* C19: while the application keeps running, an export whose processExport
\* failed is written to the channel again (and so processed again) or acked:
\* no export stays failed.
C19_FailedProcessedAgain ==
    \A i \in 1..MaxQueued :
        (i \in failed /\ ~ctxDone) ~> (i \notin failed \/ ctxDone)

\* C14: with several calls of ConsumeExports running against the group, no
\* entry is in flight (given to a call, neither acked nor released since) at
\* two of them at once.
C14_InFlightAtOneCall ==
    \A c, d \in Consumers : c # d => inflight[c] \cap inflight[d] = {}

\* C16: every ExportInProgress written to the channel, on a first delivery
\* or a later one, carries the id SubmitExport returned for its entry and
\* the FromUserID, Amount, Protocol and ProtocolPayload that were submitted.
C16_RoundTrip ==
    \A h \in held :
        /\ h.Ack.idx <= Len(submitted)
        /\ h.ID = submitted[h.Ack.idx].id
        /\ h.Export.FromUserID = submitted[h.Ack.idx].e.FromUserID
        /\ h.Export.Amount = submitted[h.Ack.idx].e.Amount
        /\ h.Export.Protocol = submitted[h.Ack.idx].e.Protocol
        /\ h.Export.ProtocolPayload = submitted[h.Ack.idx].e.ProtocolPayload

\* an export was nacked and the receiver holds it from a delivery after that
C16_Witness ==
    \E h \in held :
        /\ nacks[h.Ack.idx] > 0
        /\ h.reader # 0
        /\ h.Ack.idx \in inflight[h.reader]
        /\ h.ID = ret.val
        /\ h.Export.ProtocolPayload \in Payloads

\* C17: Ack is idempotent: an Ack of an entry that was acked before returns
\* nil and leaves the stream, the group's pending entries, what is released
\* for redelivery and every balance as they were.
C17_AckIdempotent ==
    [][\A h \in Handles :
          (h \in held /\ h \notin held' /\ h.Ack.idx \in acked
              /\ ackRet'.idx = h.Ack.idx /\ ackRet'.again
              /\ acked' = acked /\ nacks' = nacks)
          => /\ ackRet'.err = Nil
             /\ exports' = exports
             /\ pel' = pel
             /\ released' = released
             /\ balances' = balances]_vars

\* an entry was acked twice: the second Ack returned nil
C17_Witness ==
    /\ ackRet.again
    /\ ackRet.err = Nil
    /\ ackRet.idx \in acked
    /\ ackRet.idx \notin DOMAIN pel

\* a single call of ConsumeExports at a time, called again when it has
\* returned, reading a stream that two goroutines submit to
OrderSubmit(t, c, ms) ==
    /\ Len(exports) < MaxOrdered
    /\ Complete(t, c, ms)

OrderNext ==
    \/ \E t \in Threads : Call(t)
    \/ \E t \in Threads : \E c \in FundedSubmitCalls : \E ms \in Clock :
          OrderSubmit(t, c, ms)
    \/ Start(1)
    \/ Cancel
    \/ CheckCtx(1)
    \/ NextFails(1)
    \/ ReadNext(1)
    \/ Send(1)
    \/ \E h \in Handles : Ack(h)
    \/ \E h \in Handles : Nack(h)

OrderSpec == ExportInit /\ [][OrderNext]_vars

\* C15: with a single call of ConsumeExports running, the exports are first
\* written to the channel in the order their SubmitExports succeeded: the
\* k-th id received for the first time is the id the k-th successful
\* SubmitExport returned.
C15_FirstDeliveriesInSubmitOrder ==
    \A k \in 1..Len(order) :
        /\ k <= Len(submitted)
        /\ order[k] = submitted[k].id

\* two exports were received one after the other, and the first of them
\* was nacked
C15_Witness ==
    /\ Len(order) = 2
    /\ Len(submitted) = 2
    /\ order[1] # order[2]
    /\ nacks[1] > 0
    /\ 2 \notin acked

\* C24: conservation.  In every state the sum of the balances plus the sum
\* of the Amounts of the exports appended to the stream is the initial sum
\* of the balances plus the sum of the amounts of the Incrs that succeeded;
\* and no Transfer, whatever its amount and its two users (the same user
\* twice included), changes the sum of the balances.
C24_Conservation ==
    /\ [](TotalBalance(balances) + ExportedAmount(exports)
            = SumOver(initial, Users) + minted)
    /\ [][Completes("Transfer") =>
            TotalBalance(balances') = TotalBalance(balances)]_vars

\* Incrs, an export and a successful Transfer from a user to itself
C24_Witness ==
    /\ minted # 0
    /\ Len(exports) > 0
    /\ ret.op = "Transfer"
    /\ ret.err = Nil
    /\ ret.call.dstUserID = ret.call.srcUserID
    /\ ret.call.amount # 0

\* C25: no double spend.  Whatever calls are in flight together, a call that
\* succeeds takes from a user no more than the balance the user has when
\* the call takes effect, so the debits that succeed never add up to more
\* than the user's initial balance plus the credits before them, and of two
\* debits that together exceed the balance one is refused.
C25_NoDoubleSpend ==
    [][\A u \in Users :
          ((\E t \in Threads : inCall[t] /\ ~inCall'[t])
              /\ ret'.err = Nil /\ Delta(ret'.call, u) < 0)
          => /\ 0 - Delta(ret'.call, u) <= BalanceOf(balances, u)
             /\ BalanceOf(balances', u) = BalanceOf(balances, u) + Delta(ret'.call, u)
             /\ applied'[u] + initial[u] >= 0]_vars

\* a user had enough for either of two debits; one took effect, and the
\* other, which the balance no longer covers, was refused while a call of
\* the other goroutine was in flight
C25_Witness ==
    \E u \in Users :
        /\ ret.op \in {"Transfer", "SubmitExport"}
        /\ ErrorsIs(ret.err, ErrNotEnoughFunds)
        /\ Delta(ret.call, u) < 0
        /\ initial[u] + Delta(ret.call, u) >= 0
        /\ applied[u] < 0
        /\ BalanceOf(balances, u) + Delta(ret.call, u) < 0
        /\ \E t \in Threads : inCall[t]

\* C26: a successful Transfer(dst, src, amount) returns the balances that
\* Balance(dst) and Balance(src) report right after it, for every dst and
\* src, dst = src included.
C26_TransferReturnsBalances ==
    [][(Completes("Transfer") /\ ret'.err = Nil) =>
          /\ ret'.val[1] = Balance(balances', ret'.call.dstUserID).val
          /\ ret'.val[2] = Balance(balances', ret'.call.srcUserID).val]_vars

\* C27: a Transfer(dst, src, amount) with amount < 0 is refused with
\* ErrNotEnoughFunds, both balances unchanged, whenever balance(dst) + amount
\* < 0; otherwise it moves -amount from dst to src; and it leaves neither
\* balance negative.
C27_NegativeTransferSymmetric ==
    [][(Completes("Transfer") /\ ret'.call.amount < 0) =>
          LET dst == ret'.call.dstUserID
              src == ret'.call.srcUserID
              amount == ret'.call.amount
          IN  /\ BalanceOf(balances, dst) + amount < 0 =>
                    /\ ErrorsIs(ret'.err, ErrNotEnoughFunds)
                    /\ balances' = balances
              /\ BalanceOf(balances, dst) + amount >= 0 =>
                    /\ ret'.err = Nil
                    /\ \A u \in Users :
                          BalanceOf(balances', u)
                             = BalanceOf(balances, u)
                               + (IF u = dst THEN amount ELSE 0)
                               - (IF u = src THEN amount ELSE 0)
              /\ BalanceOf(balances', dst) >= 0
              /\ BalanceOf(balances', src) >= 0]_vars

\* a Transfer of a negative amount was refused for a dst with nothing while
\* src had something
C27_Witness ==
    /\ ret.op = "Transfer"
    /\ ret.call.amount < 0
    /\ ErrorsIs(ret.err, ErrNotEnoughFunds)
    /\ ret.call.dstUserID # ret.call.srcUserID
    /\ BalanceOf(balances, ret.call.dstUserID) + ret.call.amount < 0
    /\ BalanceOf(balances, ret.call.srcUserID) > 0

\* C28: on balances that are not negative and an amount >= 0 the earlier
\* transferCmd (refusing only when src has less than the amount) and the
\* current one (refusing also when dst + amount < 0) give the same reply and
\* the same balances; they differ for amounts < 0 only.
C28_TransferVariantsAgree ==
    [][Completes("Transfer") =>
          LET c == ret'.call
              earlier == transferCmdEarlier(balances, c.dstUserID, c.srcUserID,
                                            Itoa(c.amount))
              current == transferCmd(balances, c.dstUserID, c.srcUserID,
                                     Itoa(c.amount))
          IN  /\ (\A u \in Users : BalanceOf(balances, u) >= 0)
              /\ c.amount >= 0 => earlier = current]_vars

\* a Transfer of a positive amount between two users has succeeded, in a
\* state where the two differ on a Transfer of -1 to a user with nothing
C28_Witness ==
    /\ ret.op = "Transfer"
    /\ ret.err = Nil
    /\ ret.call.amount > 0
    /\ ret.call.dstUserID # ret.call.srcUserID
    /\ \E d, sr \in Users :
          /\ d # sr
          /\ BalanceOf(balances, d) = 0
          /\ transferCmdEarlier(balances, d, sr, Itoa(0 - 1))
                # transferCmd(balances, d, sr, Itoa(0 - 1))

\* the end-to-end scenario: one goroutine makes these calls one after the
\* other, starting from balances of 0
ScenarioCalls ==
    << [op |-> "Incr", userID |-> "A", by |-> 10],
       [op |-> "Transfer", dstUserID |-> "B", srcUserID |-> "A", amount |-> 3],
       [op |-> "Balance", userID |-> "A"],
       [op |-> "Balance", userID |-> "B"],
       [op |-> "SubmitExport",
        e |-> [FromUserID |-> "A", Amount |-> 5, Protocol |-> "chain",
               ProtocolPayload |-> "payload"]] >>

ScenarioInit ==
    /\ Init
    /\ \A u \in Users : initial[u] = 0

ScenarioCall ==
    /\ step < Len(ScenarioCalls)
    /\ Call(1)

\* the server runs the scenario's next call and the call returns
ScenarioComplete(ms) ==
    /\ inCall[1]
    /\ step < Len(ScenarioCalls)
    /\ \E c \in {ScenarioCalls[step + 1]} :
       \E r \in {Run(c, balances, exports, ms)} :
           /\ balances' = r.h
           /\ exports' = r.s
           /\ ret' = [op |-> c.op, call |-> c, val |-> r.val, err |-> r.err]
           /\ applied' = [u \in Users |->
                            applied[u] + (IF r.err = Nil THEN Delta(c, u) ELSE 0)]
           /\ submitted' = IF c.op = "SubmitExport" /\ r.err = Nil
                            THEN Append(submitted, [id |-> r.val, e |-> c.e])
                            ELSE submitted
           /\ minted' = IF c.op = "Incr" /\ r.err = Nil
                         THEN minted + c.by
                         ELSE minted
    /\ step' = step + 1
    /\ inCall' = [inCall EXCEPT ![1] = FALSE]
    /\ UNCHANGED initial
    /\ UNCHANGED exportVars
    /\ UNCHANGED appVars

\* ConsumeExports is called: the first call at any time, a further call
\* once the export has been acked
ScenarioStart(c) ==
    /\ c = 1 \/ acked # {}
    /\ Start(c)

\* the scenario has no failure and no cancellation between the delivery of
\* the export and its Ack
ScenarioFails(c) ==
    /\ inflight[c] = {}
    /\ NextFails(c)

ScenarioCancel ==
    /\ \A c \in Consumers : inflight[c] = {}
    /\ Cancel

ScenarioNext ==
    \/ ScenarioCall
    \/ \E ms \in Ticks : ScenarioComplete(ms)
    \/ \E c \in Consumers : ScenarioStart(c)
    \/ ScenarioCancel
    \/ \E c \in Consumers : CheckCtx(c)
    \/ \E c \in Consumers : ScenarioFails(c)
    \/ \E c \in Consumers : ReadNext(c)
    \/ \E c \in Consumers : Send(c)
    \/ \E h \in Handles : Ack(h)

ScenarioSpec == ScenarioInit /\ [][ScenarioNext]_vars

\* C21: the end-to-end trace.  From balances of 0, Incr(A, 10) returns 10;
\* Transfer(B, A, 3) returns (3, 7) and leaves A with 7 and B with 3, which
\* the two Balances return; SubmitExport(A, 5, ...) succeeds and leaves A
\* with 2; ConsumeExports writes the export, as submitted, to the channel
\* once only; its Ack returns nil, and no read gives the export to a call
\* again after that.
C21_EndToEnd ==
    [][/\ (step = 0 /\ step' = 1) => (ret'.err = Nil /\ ret'.val = 10)
       /\ (step = 1 /\ step' = 2) =>
             /\ ret'.err = Nil
             /\ ret'.val = <<3, 7>>
             /\ BalanceOf(balances', "A") = 7
             /\ BalanceOf(balances', "B") = 3
       /\ (step = 2 /\ step' = 3) => (ret'.err = Nil /\ ret'.val = 7)
       /\ (step = 3 /\ step' = 4) => (ret'.err = Nil /\ ret'.val = 3)
       /\ (step = 4 /\ step' = 5) =>
             /\ ret'.err = Nil
             /\ BalanceOf(balances', "A") = 2
             /\ BalanceOf(balances', "B") = 3
             /\ Len(exports') = 1
       /\ \A c \in Consumers :
             (cpc[c] = "send" /\ cpc'[c] = "top") =>
                 /\ entry[c] \notin written
                 /\ \E h \in held' :
                       /\ h.ID = ret.val
                       /\ h.Export = ScenarioCalls[5].e
       /\ ackRet' # ackRet => ackRet'.err = Nil
       /\ \A c \in Consumers :
             (cpc[c] = "next" /\ cpc'[c] = "send") => entry'[c] \notin acked]_vars

\* the scenario has run to its end: the export was written once and acked,
\* and a call started after the Ack has read from the stream
C21_Witness ==
    /\ step = 5
    /\ BalanceOf(balances, "A") = 2
    /\ BalanceOf(balances, "B") = 3
    /\ written = {1}
    /\ acked = {1}
    /\ ackRet.err = Nil
    /\ readAfterAck
    /\ cpc[2] = "top"
    /\ reader[2].hasInit

\* C29: shutdown terminates.  Once the shutdown hook has cancelled runCtx,
\* processExports returns and the goroutine calling ConsumeExports leaves
\* its loop (ConsumeExports returns context.Canceled), so that wg.Wait()
\* returns, whatever the two were doing when the context was cancelled.
C29_ShutdownTerminates ==
    ctxDone ~> (/\ ~receiving
                /\ cpc[1] = "ret"
                /\ ErrorsIs(cerr[1], ErrCanceled))

C23_DebitedBeforeIssued ==
    [][/\ \A i \in handedOff' \ handedOff :
              /\ i \in 1..Len(submitted)
              /\ \E h \in held :
                     /\ h.Ack.idx = i
                     /\ h.Export = submitted[i].e
                     /\ h.ID = submitted[i].id
       /\ Len(submitted') > Len(submitted)
            => /\ Len(submitted') = Len(submitted) + 1
               /\ Len(exports') = Len(exports) + 1
               /\ \E s \in {submitted'[Len(submitted')]} :
                      /\ s.e.Amount > 0
                      /\ BalanceOf(balances', s.e.FromUserID) =
                             BalanceOf(balances, s.e.FromUserID) - s.e.Amount
                      /\ BalanceOf(balances', s.e.FromUserID) >= 0
       /\ Len(exports') > Len(exports) => Len(submitted') > Len(submitted)
       /\ (EventStep /\ ev'.type = "withdraw" /\ ~ev'.ok)
            => /\ balances' = balances
               /\ exports' = exports
               /\ submitted' = submitted]_vars

\* an export has been submitted to Stellar, and a later withdraw whose
\* transaction could not be constructed left the bank as it was
C23_Witness ==
    /\ handedOff # {}
    /\ ev.type = "withdraw"
    /\ ev.amount > 0
    /\ ~ev.ok
    /\ ev.did = "MakeSendXDR failed"
    /\ Len(exports) = Len(submitted)

\* C30: processExport calls Ack only after the submission of that export to
\* Stellar returned success, so that an export leaves the pending entries of
\* the queue only after it has been handed off at least once.
C30_AckOnlyAfterHandOff ==
    [][/\ ackRet' # ackRet => (txOK /\ ackRet'.idx \in handedOff)
       /\ \A i \in DOMAIN pel : i \notin DOMAIN pel' => i \in handedOff
       /\ acked' \subseteq handedOff]_vars

\* an export was acked after its hand-off
C30_Witness ==
    /\ acked # {}
    /\ acked \subseteq handedOff
    /\ ackRet.idx \in acked
    /\ ackRet.err = Nil
    /\ txOK

\* ------------------------------------------- exports of another protocol

\* SubmitExport called through the ExportingBank interface with a Protocol
\* the application does not know: the bank records the export as it is
SubmitForeign(userID, amount) ==
    /\ \E ms \in Clock :
           Serve([op |-> "SubmitExport",
                  e |-> [FromUserID |-> userID,
                         Amount |-> amount,
                         Protocol |-> "chain",
                         ProtocolPayload |-> "payload"]], ms)
    /\ UNCHANGED exportVars
    /\ UNCHANGED appVars

ForeignNext ==
    \/ PayoutNext
    \/ \E userID \in Users : \E amount \in 1..MaxAmt :
           SubmitForeign(userID, amount)

ForeignSpec == ExportInit /\ [][ForeignNext]_vars

\* the entries of the ExportInProgress values processExport has in hand
HeldIdx(hs) == {h.Ack.idx : h \in hs}

\* C31: when processExport finds that an export can never succeed (its
\* Protocol is not "stellar"), it acks the record, so that it leaves the
\* queue, and gives the debited amount back to the user.
C31_UnknownProtocolAckedAndRefunded ==
    [][\A h \in held :
           (h.Export.Protocol # "stellar" /\ h.Ack.idx \notin HeldIdx(held'))
             => /\ h.Ack.idx \in acked'
                /\ h.Ack.idx \notin DOMAIN pel'
                /\ BalanceOf(balances', h.Export.FromUserID) =
                       BalanceOf(balances, h.Export.FromUserID)
                           + h.Export.Amount]_vars

\* C32: for each export record the "transaction was successful" message is
\* sent at most once, and only after that record's Ack returned success,
\* over all the deliveries of the record.
C32_SuccessMessageOnce ==
    /\ \A i \in 1..Len(dms) : \A j \in 1..Len(dms) : dms[i] = dms[j] => i = j
    /\ \A i \in 1..Len(dms) : dms[i] \in acked

\* C33: while the run context is not cancelled the consuming goroutine never
\* stops for good.  ConsumeExports never returns nil and returns
\* context.Canceled only when the context is cancelled, and whenever it has
\* returned another error it is called again.
C33_ConsumerKeepsRunning ==
    /\ [](cpc[1] = "ret"
            => /\ cerr[1] # Nil
               /\ ErrorsIs(cerr[1], ErrCanceled) => ctxDone)
    /\ (cpc[1] = "ret" /\ ~ErrorsIs(cerr[1], ErrCanceled)) ~> (cpc[1] # "ret")

\* ConsumeExports has returned a read error and has been called again
C33_Witness ==
    /\ errs > 0
    /\ ~ctxDone
    /\ cpc[1] \in {"top", "next", "send"}
    /\ cerr[1] = Nil

\* C34: a read that times out because no export is available is not an
\* error: ConsumeExports does not return and writes nothing to the channel,
\* it goes back to the top of its loop; and every read follows a check of
\* the context that found it not cancelled.
C34_TimeoutIsNotAnError ==
    [][\A c \in Consumers :
           /\ (cpc[c] = "next" /\ cpc'[c] = "top")
                => /\ held' = held
                   /\ written' = written
                   /\ entry'[c] = 0
                   /\ cerr'[c] = Nil
                   /\ pel' = pel
           /\ (cpc[c] = "next" /\ cpc'[c] = "send") => entry'[c] # 0
           /\ (cpc[c] # "next" /\ cpc'[c] = "next")
                => (cpc[c] = "top" /\ ~ctxDone)]_vars

\* a read has timed out on an empty stream and the call is back at the top
\* of its loop
C34_Witness ==
    \E c \in Consumers :
        /\ reader[c].hasInit
        /\ cpc[c] = "top"
        /\ Len(exports) = 0
        /\ cerr[c] = Nil
        /\ held = {}

\* the balances of the users outside S are what they were, set or not
OthersUntouched(S) ==
    \A u \in Users \ S :
        /\ (u \in DOMAIN balances') = (u \in DOMAIN balances)
        /\ BalanceOf(balances', u) = BalanceOf(balances, u)

\* the consumer group's delivery state is what it was
GroupUntouched ==
    /\ groupExists' = groupExists
    /\ lastDelivered' = lastDelivered
    /\ pel' = pel
    /\ released' = released
    /\ acked' = acked

\* C35: frame.  An Incr(u, _), successful or not, changes no balance other
\* than u's; a Transfer(dst, src, _) none other than dst's and src's; a
\* SubmitExport none other than FromUserID's; Balance changes none; and
\* none of Balance, Incr and Transfer appends to the exports stream or
\* changes the consumer group's delivery state.
C35_Frame ==
    [][/\ Completes("Balance") => balances' = balances
       /\ Completes("Incr") => OthersUntouched({ret'.call.userID})
       /\ Completes("Transfer")
            => OthersUntouched({ret'.call.dstUserID, ret'.call.srcUserID})
       /\ Completes("SubmitExport")
            => /\ OthersUntouched({ret'.call.e.FromUserID})
               /\ GroupUntouched
       /\ (Completes("Balance") \/ Completes("Incr") \/ Completes("Transfer"))
            => /\ exports' = exports
               /\ GroupUntouched
       /\ \A op \in {"Incr", "Transfer", "SubmitExport"} :
              (Completes(op) /\ ret'.err # Nil) => balances' = balances]_vars

\* an Incr has changed its user's balance while the other user holds one
C35_Witness ==
    /\ ret.op = "Incr"
    /\ ret.err = Nil
    /\ ret.call.by # 0
    /\ \E u \in Users \ {ret.call.userID} : BalanceOf(balances, u) > 0

\* C36: through the chat commands the ledger is never asked for a
\* degenerate movement.  give calls Transfer only with an amount > 0 and a
\* destination that is not the sender, withdraw calls SubmitExport only
\* with an amount > 0, and a command that is rejected changes no balance
\* and calls nothing.
C36_NoDegenerateMovement ==
    [][(EventStep /\ ev'.type \in {"give", "withdraw"})
         => IF \/ ev'.amount <= 0
               \/ (ev'.type = "give" /\ ev'.user = ev'.other)
               \/ (ev'.type = "withdraw" /\ ~ev'.ok)
            THEN /\ ev'.did \notin {"Transfer", "SubmitExport"}
                 /\ balances' = balances
                 /\ exports' = exports
                 /\ applied' = applied
                 /\ submitted' = submitted
            ELSE IF ev'.type = "give"
            THEN /\ ret'.op = "Transfer"
                 /\ ret'.call.amount = ev'.amount
                 /\ ret'.call.amount > 0
                 /\ ret'.call.srcUserID = ev'.user
                 /\ ret'.call.dstUserID = ev'.other
                 /\ ret'.call.dstUserID # ret'.call.srcUserID
            ELSE /\ ret'.op = "SubmitExport"
                 /\ ret'.call.e.Amount = ev'.amount
                 /\ ret'.call.e.Amount > 0
                 /\ ret'.call.e.FromUserID = ev'.user]_vars

\* a give to oneself has been turned away after a give to another went
\* through
C36_Witness ==
    /\ ev.type = "give"
    /\ ev.user = ev.other
    /\ ev.amount > 0
    /\ ev.did = "quit playing with yourself, kid"
    /\ ret.op = "Transfer"
    /\ ret.err = Nil
    /\ ret.call.dstUserID # ret.call.srcUserID

\* C37: a reaction_removed event takes 1 from the balance of the message's
\* author only when that balance is at least 1.  When the Incr is refused
\* with ErrNotEnoughFunds the event is passed over: the balances stay as
\* they are and no error is reported.  No balance is below 0 in any state,
\* whatever gives and withdraws come in between.
C37_ReactionRemovedNeverBelowZero ==
    /\ [](\A u \in Users : BalanceOf(balances, u) >= 0)
    /\ [][(EventStep /\ ev'.type = "reaction_removed")
            => IF /\ ev'.user # ev'.other
                  /\ ev'.other # ""
                  /\ BalanceOf(balances, ev'.other) >= 1
               THEN /\ BalanceOf(balances', ev'.other) =
                           BalanceOf(balances, ev'.other) - 1
                    /\ OthersUntouched({ev'.other})
                    /\ ev'.did = "Incr"
               ELSE /\ balances' = balances
                    /\ ev'.did # "error logged"]_vars

\* a reaction was removed from a message whose author had nothing left, and
\* the refusal was passed over
C37_Witness ==
    /\ ev.type = "reaction_removed"
    /\ ev.user # ev.other
    /\ ev.did = "Incr"
    /\ ret.op = "Incr"
    /\ ret.call.userID = ev.other
    /\ ret.call.by = 0 - 1
    /\ ErrorsIs(ret.err, ErrNotEnoughFunds)
    /\ BalanceOf(balances, ev.other) = 0
    /\ minted > 0

\* ------------------------------------------- errors of the store

\* errors b.Do returns when the command did not run to its reply: the
\* connection failed, the key holds a value of another type
StorageErrs ==
    {ErrorsNew("net.OpError", "i/o timeout"),
     ErrorReply("WRONGTYPE Operation against a key holding the wrong kind of value")}

\* what each method puts in front of the error it returns
ErrPrefix(op) ==
    CASE op = "Balance" -> "error retriving balance from redis"
      [] op = "Incr" -> "incrementing balance in redis"
      [] op = "Transfer" -> "transfering amount in redis"
      [] op = "SubmitExport" -> "error performing export command in redis"

\* the zero values a method returns with an error
ZeroVal(op) ==
    CASE op = "Balance" -> 0
      [] op = "Incr" -> 0
      [] op = "Transfer" -> <<0, 0>>
      [] op = "SubmitExport" -> Nil

\* a call whose command fails in the store with error e: nothing is
\* changed, the method returns e translated and wrapped
StoreFails(t, c, e) ==
    /\ inCall[t]
    /\ c.op = "SubmitExport" => c.e.Amount > 0
    /\ ret' = [op |-> c.op, call |-> c, val |-> ZeroVal(c.op),
               err |-> Wrap(ErrPrefix(c.op), translateRedisErr(e))]
    /\ inCall' = [inCall EXCEPT ![t] = FALSE]
    /\ UNCHANGED <<balances, exports, initial, applied, submitted, minted, step>>
    /\ UNCHANGED exportVars
    /\ UNCHANGED appVars

\* the calls of one goroutine, each answered by the store or failing in it
ErrNext ==
    \/ Call(1)
    \/ \E c \in BalanceCalls : Complete(1, c, 0)
    \/ \E c \in IncrCalls : Complete(1, c, 0)
    \/ \E c \in TransferCalls : Complete(1, c, 0)
    \/ \E c \in SubmitCalls : \E ms \in Clock : Complete(1, c, ms)
    \/ \E c \in Calls : \E e \in StorageErrs : StoreFails(1, c, e)

ErrSpec == ExportInit /\ [][ErrNext]_vars

\* the error at the root of a chain
Innermost(err) == err[Len(err)]

\* the change call c asks for would take a balance of h below 0
FundsShort(c, h) ==
    CASE c.op = "Balance" -> FALSE
      [] c.op = "Incr" -> BalanceOf(h, c.userID) + c.by < 0
      [] c.op = "Transfer" ->
            \/ BalanceOf(h, c.srcUserID) - c.amount < 0
            \/ BalanceOf(h, c.dstUserID) + c.amount < 0
      [] c.op = "SubmitExport" -> BalanceOf(h, c.e.FromUserID) < c.e.Amount

\* C38: the failures for insufficient funds keep one identity.  An error
\* returned by Incr, Transfer or SubmitExport because the funds are short
\* satisfies errors.Is(err, ErrNotEnoughFunds); an error of the store and
\* the error for a malformed amount do not, and neither does any error of
\* Balance.
C38_NotEnoughFundsIdentity ==
    [][\A op \in {"Balance", "Incr", "Transfer", "SubmitExport"} :
           (Completes(op) /\ ret'.err # Nil)
             => IF \E e \in StorageErrs : Innermost(ret'.err) = e[1]
                THEN ~ErrorsIs(ret'.err, ErrNotEnoughFunds)
                ELSE IF op = "SubmitExport" /\ ret'.call.e.Amount <= 0
                THEN ~ErrorsIs(ret'.err, ErrNotEnoughFunds)
                ELSE /\ op # "Balance"
                     /\ FundsShort(ret'.call, balances)
                     /\ ErrorsIs(ret'.err, ErrNotEnoughFunds)
                     /\ balances' = balances]_vars

\* a Transfer has been refused because the funds were short
C38_Witness ==
    /\ ret.op = "Transfer"
    /\ ErrorsIs(ret.err, ErrNotEnoughFunds)
    /\ FundsShort(ret.call, balances)

\* ------------------------------------------- deposits

\* the bot's Stellar address, its currency and its federation domain
BotAddress == "bot"
CurrencyName == "BUCK"
Domain == <<"*", "bucks.example">>

\* an incoming payment of one token for user u: a memo is the text split in
\* its parts, an amount the digits before and after the point
GoodPayment(u) ==
    [type |-> "payment", to |-> BotAddress, from |-> "sender",
     code |-> CurrencyName, issuer |-> BotAddress, amount |-> <<1, 0>>,
     memo |-> <<u>>]

\* the operations that can show up on the bot's account: good payments,
\* and payments that differ from a good one in one respect
OpKinds ==
    {GoodPayment(u) : u \in Users}
      \cup {[GoodPayment("A") EXCEPT !.memo = <<"A">> \o Domain],
            [GoodPayment("A") EXCEPT !.type = "change_trust"],
            [GoodPayment("A") EXCEPT !.to = "sender", !.from = BotAddress],
            [GoodPayment("A") EXCEPT !.code = "XLM"],
            [GoodPayment("A") EXCEPT !.issuer = "sender"],
            [GoodPayment("A") EXCEPT !.amount = <<0, 5>>],
            [GoodPayment("A") EXCEPT !.memo = <<"nobody">>]}

\* strings.TrimSuffix
TrimSuffix(m, suffix) ==
    IF /\ Len(m) >= Len(suffix)
       /\ SubSeq(m, Len(m) - Len(suffix) + 1, Len(m)) = suffix
    THEN SubSeq(m, 1, Len(m) - Len(suffix))
    ELSE m

\* slackClient.getUserByName: the user of that name, no user without one
NoUser == ""

getUserByName(name) ==
    IF Len(name) = 1 /\ name[1] \in Users THEN name[1] ELSE NoUser

\* receivePayments hands the operation to the handler: a payment to the
\* bot's address that the bot did not send
IsIncoming(op) ==
    op.type = "payment" /\ op.to = BotAddress /\ op.from # BotAddress

\* processStellarPayment gets as far as the Incr: the payment is in the
\* bot's currency, its memo names a user, its amount is a whole number
Creditable(op) ==
    /\ op.code = CurrencyName
    /\ op.issuer = BotAddress
    /\ getUserByName(TrimSuffix(op.memo, Domain)) # NoUser
    /\ op.amount[2] = 0

\* someone makes a payment, or another operation, on the bot's account
Pay(op) ==
    /\ Len(ops) < MaxOps
    /\ ops' = Append(ops, op)
    /\ UNCHANGED <<lastCursor, savedCursor, rpc, credited, restarts>>
    /\ UNCHANGED <<handedOff, txOK, ev, dms>>
    /\ UNCHANGED ledgerVars
    /\ UNCHANGED exportVars

\* receivePayments starts: lastCursor is read from redis
FetchCursor ==
    /\ rpc = "off"
    /\ lastCursor' = savedCursor
    /\ rpc' = "stream"
    /\ UNCHANGED <<ops, savedCursor, credited, restarts>>
    /\ UNCHANGED <<handedOff, txOK, ev, dms>>
    /\ UNCHANGED ledgerVars
    /\ UNCHANGED exportVars

\* StreamPayments calls receivePayments' callback with the operation after
\* lastCursor: the handler is run on an incoming payment (detailOK: the
\* transaction's detail could be retrieved), then lastCursor moves to the
\* operation and is written to redis (setOK: the SET succeeded; its error
\* is logged)
StreamOp(detailOK, setOK) ==
    /\ rpc = "stream"
    /\ lastCursor < Len(ops)
    /\ \E op \in {ops[lastCursor + 1]} :
           IF IsIncoming(op) /\ Creditable(op) /\ detailOK
           THEN /\ Serve([op |-> "Incr",
                          userID |-> getUserByName(TrimSuffix(op.memo, Domain)),
                          by |-> op.amount[1]], 0)
                /\ credited' = IF ret'.err = Nil
                               THEN Append(credited, lastCursor + 1)
                               ELSE credited
           ELSE /\ UNCHANGED ledgerVars
                /\ credited' = credited
    /\ lastCursor' = lastCursor + 1
    /\ savedCursor' = IF setOK THEN lastCursor + 1 ELSE savedCursor
    /\ UNCHANGED <<ops, rpc, restarts>>
    /\ UNCHANGED <<handedOff, txOK, ev, dms>>
    /\ UNCHANGED exportVars

\* the program is shut down between two callbacks and started again
Restart ==
    /\ rpc = "stream"
    /\ restarts < MaxRestarts
    /\ restarts' = restarts + 1
    /\ rpc' = "off"
    /\ lastCursor' = 0
    /\ UNCHANGED <<ops, savedCursor, credited>>
    /\ UNCHANGED <<handedOff, txOK, ev, dms>>
    /\ UNCHANGED ledgerVars
    /\ UNCHANGED exportVars

DepositNext ==
    \/ \E op \in OpKinds : Pay(op)
    \/ FetchCursor
    \/ \E detailOK \in BOOLEAN : \E setOK \in BOOLEAN : StreamOp(detailOK, setOK)
    \/ Restart

DepositSpec == BotInit /\ [][DepositNext]_vars

\* C39: deposits are credited at most once per incoming payment operation.
\* No operation is credited twice, over restarts included; an operation is
\* credited only if it is an incoming payment in the bot's currency and
\* issuer with a whole-number amount and a memo that names a user, the
\* credit being the amount, to that user; in every other case no balance
\* changes.
C39_DepositsCreditedOnce ==
    /\ [](\A i \in 1..Len(credited) : \A j \in 1..Len(credited) :
              credited[i] = credited[j] => i = j)
    /\ [](\A i \in 1..Len(credited) :
              IsIncoming(ops[credited[i]]) /\ Creditable(ops[credited[i]]))
    /\ [][balances' # balances
            => /\ Len(credited') = Len(credited) + 1
               /\ \E op \in {ops[credited'[Len(credited')]]} :
                      \E u \in {getUserByName(TrimSuffix(op.memo, Domain))} :
                          /\ BalanceOf(balances', u) =
                                 BalanceOf(balances, u) + op.amount[1]
                          /\ OthersUntouched({u})]_vars

====
